---- MODULE Spec2Model ----
(***************************************************************************)
(* MahjongKit: the Partition engine and the Win/Score engine               *)
(* (src/MahjongKit.py), modelled as pure operators over tile lists, and a  *)
(* state machine that draws inputs and applies the operations.             *)
(*                                                                         *)
(* A tile list is a sequence of integers (34-form), a group a tile list,   *)
(* a decomposition a sequence of groups. Python's None returned by the     *)
(* inner parsers is the empty sequence: every use of it in the source is a *)
(* truth test, and no parser returns an empty list.                        *)
(***************************************************************************)
EXTENDS Integers, Sequences, FiniteSets, TLC

(***************************************************************************)
(* Class Tile: the static classification lists.                            *)
(***************************************************************************)
EAST == 27

THREES == <<31, 32, 33>>

WINDS == <<27, 28, 29, 30>>

HONORS == <<27, 28, 29, 30, 31, 32, 33>>

TERMINALS == <<0, 8, 9, 17, 18, 26>>

ONENINE == <<0, 8, 9, 17, 18, 26, 27, 28, 29, 30, 31, 32, 33>>

GREENS == <<19, 20, 21, 23, 25, 32>>

(***************************************************************************)
(* Python list primitives.                                                 *)
(***************************************************************************)
\* x in s
In(x, s) == \E i \in DOMAIN s : s[i] = x

\* s.count(x)
Count(s, x) == Cardinality({i \in DOMAIN s : s[i] = x})

\* s.remove(x): drops the first occurrence (x is present at every call)
Remove(s, x) ==
    LET i == CHOOSE k \in DOMAIN s : s[k] = x /\ \A j \in 1..(k - 1) : s[j] # x
    IN  SubSeq(s, 1, i - 1) \o SubSeq(s, i + 1, Len(s))

\* s[n:]  (n is a Python index, 0-based)
From(s, n) == SubSeq(s, n + 1, Len(s))

\* abs(x)
Abs(x) == IF x < 0 THEN 0 - x ELSE x

\* [x] * n
Rep(x, n) == [i \in 1..n |-> x]

\* [g] + p for every p of a list of decompositions
Prepend(g, ps) == [i \in DOMAIN ps |-> <<g>> \o ps[i]]

\* the elements of a list, as a set
Range(s) == {s[i] : i \in DOMAIN s}

\* The slot CPython's set gives a key (hash(t) = t for a tile): from slot i,
\* up to nine following slots are probed when they fit in the table, then the
\* probe jumps to (5 i + 1 + perturb) mod size, perturb being shifted right by
\* five bits at every jump.  An empty slot holds -1.
RECURSIVE SetSlot(_, _, _, _)
SetSlot(tab, key, i, perturb) ==
    LET mask   == Len(tab) - 1
        probes == IF i + 9 <= mask THEN 9 ELSE 0
        free   == {j \in i..(i + probes) : tab[j + 1] = -1 \/ tab[j + 1] = key}
    IN  IF free # {} THEN CHOOSE j \in free : \A k \in free : j <= k
        ELSE SetSlot(tab, key, (i * 5 + 1 + (perturb \div 32)) % Len(tab),
                     perturb \div 32)

\* the key written to its slot
SetPut(tab, key) == [tab EXCEPT ![SetSlot(tab, key, key % Len(tab), key) + 1] = key]

\* the keys of a table in slot order
SetKeys(tab) == SelectSeq(tab, LAMBDA k : k # -1)

\* the size of the table after a resize: the first power of two over minused
RECURSIVE SetSize(_, _)
SetSize(n, minused) == IF n > minused THEN n ELSE SetSize(2 * n, minused)

\* the keys of a list put one after the other into a table
RECURSIVE SetFill(_, _)
SetFill(tab, keys) ==
    IF keys = <<>> THEN tab ELSE SetFill(SetPut(tab, keys[1]), Tail(keys))

\* set.add(key): the table is rebuilt, four times the number of keys wide,
\* once three fifths of it are filled
SetAdd(tab, key) ==
    LET t2   == SetPut(tab, key)
        used == Len(SetKeys(t2))
    IN  IF used * 5 < (Len(tab) - 1) * 3 THEN t2
        ELSE SetFill([i \in 1..SetSize(8, used * 4) |-> -1], SetKeys(t2))

\* iteration over set(s) of a tile list s: the distinct tiles in the order
\* of their slots (a key the table already holds is found in its slot and
\* the table is left as it is)
SetOrder(s) ==
    LET RECURSIVE Build(_, _)
        Build(tab, keys) ==
            CASE keys = <<>> -> tab
              [] keys # <<>> /\ In(keys[1], tab) -> Build(tab, Tail(keys))
              [] keys # <<>> /\ ~In(keys[1], tab) -> Build(SetAdd(tab, keys[1]), Tail(keys))
    IN  SetKeys(Build([i \in 1..8 |-> -1], s))

\* sorted(s) / s.sort()
Sorted(s) == SortSeq(s, LAMBDA a, b : a < b)

\* sum of a list of integers
RECURSIVE Sum(_)
Sum(s) == IF s = <<>> THEN 0 ELSE s[1] + Sum(Tail(s))

\* the list without repeated elements, first occurrences kept in order
RECURSIVE Dedup(_)
Dedup(s) ==
    IF s = <<>> \/ Len(s) = 1 THEN s
    ELSE LET half == Len(s) \div 2
             d1 == Dedup(SubSeq(s, 1, half))
             d2 == Dedup(SubSeq(s, half + 1, Len(s)))
         IN  d1 \o SelectSeq(d2, LAMBDA x : ~In(x, d1))

\* concatenation of the groups of a decomposition
RECURSIVE Flatten(_)
Flatten(p) == IF p = <<>> THEN <<>> ELSE p[1] \o Flatten(Tail(p))

(***************************************************************************)
(* class Partition                                                         *)
(***************************************************************************)
\* tuned_res without the cut on the number of groups
tuned_res_no_cut(res) == Dedup(res)

\* the cut of _partition_single_type: only the decompositions with the
\* fewest groups are kept, identical ones once
tuned_res(res) ==
    Dedup(SelectSeq(res, LAMBDA p : \A i \in DOMAIN res : Len(p) <= Len(res[i])))

\* the tests that open the branches of _partition_single_type (len(tiles34) > 2)
is_pon(tiles34) == tiles34[1] = tiles34[2] /\ tiles34[2] = tiles34[3]

is_chow(tiles34) == In(tiles34[1] + 1, tiles34) /\ In(tiles34[1] + 2, tiles34)

is_two_headed(tiles34) == In(tiles34[1] + 1, tiles34)

\* is_dead tried only when the two-headed rule has not matched
is_dead_unless_matched(tiles34) ==
    ~In(tiles34[1] + 1, tiles34) /\ In(tiles34[1] + 2, tiles34)

is_dead(tiles34) == In(tiles34[1] + 2, tiles34)

is_pair(tiles34) == tiles34[1] = tiles34[2]

\* tmp_res is the result of the last, unconditional call (tiles34[1:]); its
\* length is tested before its decompositions are appended
RECURSIVE _partition_single_type(_)
_partition_single_type(tiles34) ==
    CASE Len(tiles34) = 0 -> << <<>> >>
      [] Len(tiles34) = 1 -> << <<tiles34>> >>
      [] Len(tiles34) = 2 /\ Abs(tiles34[1] - tiles34[2]) < 3 -> << <<tiles34>> >>
      [] Len(tiles34) = 2 /\ Abs(tiles34[1] - tiles34[2]) >= 3 ->
            << << <<tiles34[1]>>, <<tiles34[2]>> >> >>
      [] Len(tiles34) > 2 ->
    LET h == tiles34[1]
        tmp_res == _partition_single_type(From(tiles34, 1))
        pon == IF is_pon(tiles34)
               THEN Prepend(SubSeq(tiles34, 1, 3),
                            _partition_single_type(From(tiles34, 3)))
               ELSE <<>>
        chow == IF is_chow(tiles34)
                THEN Prepend(<<h, h + 1, h + 2>>,
                             _partition_single_type(
                                 Remove(Remove(Remove(tiles34, h), h + 1), h + 2)))
                ELSE <<>>
        two_headed == IF is_two_headed(tiles34)
                      THEN Prepend(<<h, h + 1>>,
                                   _partition_single_type(
                                       Remove(Remove(tiles34, h), h + 1)))
                      ELSE <<>>
        dead == IF is_dead(tiles34)
                THEN Prepend(<<h, h + 2>>,
                             _partition_single_type(
                                 Remove(Remove(tiles34, h), h + 2)))
                ELSE <<>>
        pair == IF is_pair(tiles34)
                THEN Prepend(SubSeq(tiles34, 1, 2),
                             _partition_single_type(From(tiles34, 2)))
                ELSE <<>>
        single == Prepend(SubSeq(tiles34, 1, 1), tmp_res)
    IN  IF Len(tmp_res) > 0
        THEN tuned_res(((pon \o chow) \o two_headed) \o ((dead \o pair) \o single))
        ELSE tuned_res(((pon \o chow) \o two_headed) \o (dead \o pair))

\* [pm + pp + ps + pc for pm in p_man for pp in p_pin for ps in p_suo for pc in p_chr]
Cross(as, bs) ==
    [k \in 1..(Len(as) * Len(bs)) |->
        as[((k - 1) \div Len(bs)) + 1] \o bs[((k - 1) % Len(bs)) + 1]]

partition(tiles34) ==
    LET p_man == _partition_single_type(SelectSeq(tiles34, LAMBDA t : 0 <= t /\ t < 9))
        p_pin == _partition_single_type(SelectSeq(tiles34, LAMBDA t : 9 <= t /\ t < 18))
        p_suo == _partition_single_type(SelectSeq(tiles34, LAMBDA t : 18 <= t /\ t < 27))
        h_chr == SelectSeq(tiles34, LAMBDA t : 27 <= t /\ t < 34)
        chrs  == SetOrder(h_chr)
        p_chr == << [i \in DOMAIN chrs |-> Rep(chrs[i], Count(h_chr, chrs[i]))] >>
    IN  Cross(p_man, Cross(p_pin, Cross(p_suo, p_chr)))

(***************************************************************************)
(* class Partition: the shanten of the six forms.                          *)
(*                                                                         *)
(* A geo_vec counts the groups of a decomposition by kind: 0 single,       *)
(* 1 closed or edge partial, 2 two-sided partial, 3 pair, 4 run,           *)
(* 5 triplet.  Every group adds to at most one kind, NoKind when to none.  *)
(***************************************************************************)
NoKind == 6

\* geo_vec after the loop over the groups, kinds[i] being the kind of the
\* i-th group
GeoVec(kinds) == [k \in 0..5 |-> Cardinality({i \in DOMAIN kinds : kinds[i] = k})]

\* min(...) of a non-empty list of integers
Min(s) == CHOOSE x \in Range(s) : \A y \in Range(s) : x <= y

\* max(...) of a non-empty list of integers
Max(s) == CHOOSE x \in Range(s) : \A y \in Range(s) : x >= y

\* int(b) of a bool used in arithmetic
BoolInt(b) == IF b THEN 1 ELSE 0

kind_normal(m) ==
    IF Len(m) = 1 THEN 0
    ELSE IF Len(m) = 2 /\ Abs(m[1] - m[2]) = 0 THEN 3
    ELSE IF Len(m) = 2 /\ Abs(m[1] - m[2]) = 1
    THEN (IF m[1] % 9 > 0 /\ m[2] % 9 < 8 THEN 2 ELSE 1)
    ELSE IF Len(m) = 2 /\ Abs(m[1] - m[2]) = 2 THEN 1
    ELSE IF Len(m) = 3 THEN (IF m[1] = m[2] THEN 5 ELSE 4)
    ELSE NoKind

geo_vec_normal(p) == GeoVec([i \in DOMAIN p |-> kind_normal(p[i])])

shantin_n(p, called_meld_num) ==
    LET geo_vec == geo_vec_normal(p)
        needed_set == (4 - called_meld_num) - geo_vec[4] - geo_vec[5]
    IN  IF geo_vec[3] > 0
        THEN IF geo_vec[1] + geo_vec[2] + geo_vec[3] - 1 >= needed_set
             THEN needed_set - 1
             ELSE 2 * needed_set - (geo_vec[1] + geo_vec[2] + geo_vec[3] - 1) - 1
        ELSE IF geo_vec[1] + geo_vec[2] >= needed_set
             THEN needed_set
             ELSE 2 * needed_set - (geo_vec[1] + geo_vec[2])

\* the greatest count over the partitions instead of the smallest
_shantin_normal_greatest(partitions, called_meld_num) ==
    LET counts == {shantin_n(partitions[i], called_meld_num) : i \in DOMAIN partitions}
    IN  CHOOSE x \in counts : \A y \in counts : y <= x

_shantin_normal(partitions, called_meld_num) ==
    Min([i \in DOMAIN partitions |-> shantin_n(partitions[i], called_meld_num)])

shantin_normal(tiles34, called_melds) ==
    _shantin_normal(partition(tiles34), Len(called_melds))

kind_pinhu(m, bonus_chrs) ==
    IF Len(m) = 1 THEN 0
    ELSE IF Len(m) = 2 /\ Abs(m[1] - m[2]) = 0
    THEN (IF ~In(m[1], bonus_chrs) THEN 3 ELSE NoKind)
    ELSE IF Len(m) = 2 /\ Abs(m[1] - m[2]) = 1
    THEN (IF m[1] % 9 > 0 /\ m[2] % 9 < 8 THEN 2 ELSE 1)
    ELSE IF Len(m) = 2 /\ Abs(m[1] - m[2]) = 2 THEN 1
    ELSE IF Len(m) = 3 THEN (IF m[1] = m[2] THEN 5 ELSE 4)
    ELSE NoKind

geo_vec_pinhu(p, bonus_chrs) == GeoVec([i \in DOMAIN p |-> kind_pinhu(p[i], bonus_chrs)])

shantin_ph(p, bonus_chrs) ==
    LET geo == geo_vec_pinhu(p, bonus_chrs)
        need_chow == 4 - geo[4]
    IN  IF geo[1] + geo[2] >= need_chow
        THEN BoolInt(geo[3] = 0) + need_chow - 1 + BoolInt(geo[2] = 0)
        ELSE BoolInt(geo[3] = 0) + need_chow - 1 + need_chow - geo[1] - geo[2]

_shantin_pinhu(partitions, called_meld_num, bonus_chrs) ==
    IF called_meld_num # 0 THEN 10
    ELSE Min([i \in DOMAIN partitions |-> shantin_ph(partitions[i], bonus_chrs)])

shantin_no_triplets(tiles34, called_melds, bonus_chrs) ==
    _shantin_pinhu(partition(tiles34), Len(called_melds), bonus_chrs)

\* for m in called_melds: if any(tile in Tile.ONENINE for tile in m)
calls_one_nine(called_melds) ==
    \E i \in DOMAIN called_melds :
        \E j \in DOMAIN called_melds[i] : In(called_melds[i][j], ONENINE)

kind_no19(m) ==
    LET mid(t) == 0 < t % 9 /\ t % 9 < 8 IN
    IF m[1] > 26 THEN NoKind
    ELSE IF Len(m) = 1 THEN (IF mid(m[1]) THEN 0 ELSE NoKind)
    ELSE IF Len(m) = 2 /\ Abs(m[1] - m[2]) = 0 THEN (IF mid(m[1]) THEN 3 ELSE NoKind)
    ELSE IF Len(m) = 2 /\ Abs(m[1] - m[2]) = 1
    THEN (IF m[1] % 9 > 1 /\ m[2] % 9 < 7 THEN 2
          ELSE IF m[1] % 9 = 1 \/ m[2] % 9 = 7 THEN 1
          ELSE NoKind)
    ELSE IF Len(m) = 2 /\ Abs(m[1] - m[2]) = 2
    THEN (IF m[1] % 9 > 0 /\ m[2] % 9 < 8 THEN 1 ELSE NoKind)
    ELSE IF Len(m) = 3 /\ m[1] = m[2] THEN (IF mid(m[1]) THEN 5 ELSE NoKind)
    ELSE IF Len(m) = 3 THEN (IF m[1] % 9 > 0 /\ m[3] % 9 < 8 THEN 4 ELSE 1)
    ELSE NoKind

geo_vec_no19(p) == GeoVec([i \in DOMAIN p |-> kind_no19(p[i])])

shantin_no19(p, called_melds) ==
    LET geo_vec == geo_vec_no19(p)
        needed_set == (4 - Len(called_melds)) - geo_vec[4] - geo_vec[5]
        with_pair == geo_vec[1] + geo_vec[2] + geo_vec[3] - 1
        no_pair == geo_vec[1] + geo_vec[2]
    IN  IF geo_vec[3] > 0
        THEN IF with_pair >= needed_set THEN needed_set - 1
             ELSE LET need_single == needed_set - with_pair IN
                  IF geo_vec[0] >= need_single
                  THEN 2 * needed_set - with_pair - 1
                  ELSE 2 * needed_set - with_pair - 1 + need_single - geo_vec[0]
        ELSE IF no_pair >= needed_set THEN needed_set + BoolInt(geo_vec[0] = 0)
             ELSE LET need_single == needed_set - no_pair + 1 IN
                  IF geo_vec[0] >= need_single
                  THEN 2 * needed_set - no_pair
                  ELSE 2 * needed_set - no_pair + need_single - geo_vec[0]

_shantin_no19(partitions, called_melds) ==
    IF calls_one_nine(called_melds) THEN 10
    ELSE Min([i \in DOMAIN partitions |-> shantin_no19(partitions[i], called_melds)])

shantin_no_19(tiles34, called_melds) ==
    _shantin_no19(partition(tiles34), called_melds)

\* any(len(m) > 1 and m[0] != m[1] for m in called_melds)
calls_sequence(called_melds) ==
    \E i \in DOMAIN called_melds :
        Len(called_melds[i]) > 1 /\ called_melds[i][1] # called_melds[i][2]

shantin_no_sequences(tiles34, called_melds) ==
    IF calls_sequence(called_melds) THEN 10
    ELSE
    LET num_kezi == Cardinality({t \in Range(tiles34) : Count(tiles34, t) = 3})
        num_pair == Cardinality({t \in Range(tiles34) : Count(tiles34, t) = 2})
        need_kezi == 4 - Len(called_melds) - num_kezi
    IN  IF num_pair >= need_kezi + 1 THEN need_kezi - 1
        ELSE 2 * need_kezi - num_pair

shantin_seven_pairs(tiles34, called_melds) ==
    IF Len(called_melds) > 0 THEN 10
    ELSE LET num_pair == Cardinality({t \in Range(tiles34) : Count(tiles34, t) >= 2})
         IN  6 - num_pair

\* the numbered suits of the called melds, in the order of their first call
RECURSIVE meld_types(_)
meld_types(called_melds) ==
    IF called_melds = <<>> THEN <<>>
    ELSE LET before == meld_types(SubSeq(called_melds, 1, Len(called_melds) - 1))
             tp == called_melds[Len(called_melds)][1] \div 9
         IN  IF tp = 3 \/ In(tp, before) THEN before ELSE Append(before, tp)

\* the suits holding the most tiles of the hand
longest_types(tiles34) ==
    LET type_geo == [i \in 1..3 |->
                       Len(SelectSeq(tiles34, LAMBDA t : (i - 1) * 9 <= t /\ t < i * 9))]
        max_num == Max(type_geo)
    IN  SelectSeq(<<0, 1, 2>>, LAMBDA i : type_geo[i + 1] = max_num)

\* qh_type: the suits a single-suit hand may be built in
qh_type(tiles34, called_melds) ==
    IF Len(called_melds) > 0 /\ Len(meld_types(called_melds)) = 1
    THEN meld_types(called_melds)
    ELSE longest_types(tiles34)

kind_qh(m, tp) ==
    IF m[1] \div 9 \in {tp, 3} THEN kind_normal(m) ELSE NoKind

geo_vec_qh(p, tp) == GeoVec([i \in DOMAIN p |-> kind_qh(p[i], tp)])

\* the while loop of shantin_n when a pair is held: the sets still needed
\* are taken from the partials, then the pairs, then the singles
RECURSIVE fill_with_pair(_, _, _, _, _)
fill_with_pair(needed_set, o, p, s, st) ==
    IF needed_set <= 0 THEN [o |-> o, p |-> p, s |-> s, st |-> st]
    ELSE IF o > 0 THEN fill_with_pair(needed_set - 1, o - 1, p, s, st + 1)
    ELSE IF p > 0 THEN fill_with_pair(needed_set - 1, o, p - 1, s, st + 1)
    ELSE IF s > 0 THEN fill_with_pair(needed_set - 1, o, p, s - 1, st + 2)
    ELSE fill_with_pair(needed_set - 1, o, p, s, st + 3)

\* the while loop of shantin_n when no pair is held
RECURSIVE fill_no_pair(_, _, _, _)
fill_no_pair(needed_set, o, s, st) ==
    IF needed_set <= 0 THEN [o |-> o, s |-> s, st |-> st]
    ELSE IF o > 0 THEN fill_no_pair(needed_set - 1, o - 1, s, st + 1)
    ELSE IF s > 0 THEN fill_no_pair(needed_set - 1, o, s - 1, st + 2)
    ELSE fill_no_pair(needed_set - 1, o, s, st + 3)

\* shantin_n of _shantin_pure_color
shantin_n_qh(p, tp, called_melds) ==
    LET geo_vec == geo_vec_qh(p, tp)
        s == geo_vec[0]
        pr == geo_vec[3]
        o == geo_vec[1] + geo_vec[2]
        f == geo_vec[4] + geo_vec[5]
    IN  IF pr > 0
        THEN LET e == fill_with_pair(3 - Len(called_melds) - f, o, pr - 1, s, 0)
             IN  IF e.o + e.p > 0 THEN e.st
                 ELSE IF e.s > 0 THEN e.st + 1 ELSE e.st + 2
        ELSE LET e == fill_no_pair(4 - Len(called_melds) - f, o, s, 0)
             IN  IF e.s > 0 THEN e.st ELSE e.st + 1

shantin_qh(p, types, called_melds) ==
    Min([i \in DOMAIN types |-> shantin_n_qh(p, types[i], called_melds)])

_shantin_pure_color(tiles34, called_melds, partitions) ==
    IF Len(called_melds) > 0 /\ Len(meld_types(called_melds)) > 1 THEN 10
    ELSE LET types == qh_type(tiles34, called_melds) IN
         IF Len(types) = 0 THEN 10
         ELSE Min([i \in DOMAIN partitions |->
                     shantin_qh(partitions[i], types, called_melds)])

shantin_pure_color(tiles34, called_melds) ==
    _shantin_pure_color(tiles34, called_melds, partition(tiles34))

shantin_multiple_forms(tiles34, called_melds, bonus_chrs) ==
    LET Forms(partitions) ==
            [normal       |-> _shantin_normal(partitions, Len(called_melds)),
             no_triplets  |-> _shantin_pinhu(partitions, Len(called_melds), bonus_chrs),
             no_19        |-> _shantin_no19(partitions, called_melds),
             no_sequences |-> shantin_no_sequences(tiles34, called_melds),
             seven_pairs  |-> shantin_seven_pairs(tiles34, called_melds),
             pure_color   |-> _shantin_pure_color(tiles34, called_melds, partitions)]
    IN  Forms(partition(tiles34))

(***************************************************************************)
(* class WinWaitCal: win_parse                                             *)
(***************************************************************************)
\* the tests that open the branches of parse_nums (len(tiles) > 3)
nums_pair(ts) == Len(ts) % 3 = 2 /\ ts[1] = ts[2]

nums_pon(ts) == ts[1] = ts[2] /\ ts[2] = ts[3]

nums_chow(ts) == In(ts[1] + 1, ts) /\ In(ts[1] + 2, ts)

RECURSIVE parse_nums(_)
parse_nums(ts) ==
    LET n == Len(ts) IN
    IF n = 0 THEN << << <<>> >> >>
    ELSE IF n = 1 THEN <<>>
    ELSE IF n = 2 THEN (IF ts[1] = ts[2] THEN << <<ts>> >> ELSE <<>>)
    ELSE IF n = 3
    THEN LET ismeld == \/ (ts[1] = ts[2] /\ ts[2] = ts[3])
                       \/ (ts[1] + 2 = ts[2] + 1 /\ ts[2] + 1 = ts[3])
         IN  IF ismeld THEN << <<ts>> >> ELSE <<>>
    ELSE IF n % 3 = 1 THEN <<>>
    ELSE
    LET h == ts[1]
        pair == IF nums_pair(ts)
                THEN Prepend(SubSeq(ts, 1, 2), parse_nums(From(ts, 2)))
                ELSE <<>>
        pon == IF nums_pon(ts)
               THEN Prepend(SubSeq(ts, 1, 3), parse_nums(From(ts, 3)))
               ELSE <<>>
        chow == IF nums_chow(ts)
                THEN Prepend(<<h, h + 1, h + 2>>,
                             parse_nums(Remove(Remove(Remove(ts, h), h + 1), h + 2)))
                ELSE <<>>
    IN  pair \o pon \o chow

\* every honor group taken for a pair
all_copies_as_pair(ts, t) == Rep(t, 2)

\* every honor group taken for a triplet
all_copies_as_triplet(ts, t) == Rep(t, 3)

\* [t] * tiles.count(t): the group of all copies of a tile
all_copies(ts, t) == Rep(t, Count(ts, t))

parse_chrs(ts) ==
    IF Len(ts) = 0 THEN << <<>> >>
    ELSE IF Len(ts) % 3 = 1 \/ \E i \in DOMAIN ts : Count(ts, ts[i]) = 1 THEN <<>>
    ELSE LET tiles_set == SetOrder(ts)
             prt == [i \in DOMAIN tiles_set |-> all_copies(ts, tiles_set[i])]
         IN  IF Len(prt) = ((Len(ts) - 1) \div 3) + 1 THEN <<prt>> ELSE <<>>

\* the seven-pairs decomposition win_parse starts its result with
seven_pairs_parse(hand_total) ==
    LET hand_total_set == SetOrder(hand_total) IN
    IF (\A i \in DOMAIN hand_total : Count(hand_total, hand_total[i]) = 2)
       /\ Len(hand_total) = 14
    THEN << [i \in DOMAIN hand_total_set |-> Rep(hand_total_set[i], 2)] >>
    ELSE <<>>

\* the thirteen-orphans shape is never recognised
is_all_single_one_nine_never(hand_total) == FALSE

\* the test that short-circuits win_parse to the thirteen-orphans shape
is_all_single_one_nine(hand_total) ==
    /\ \A i \in DOMAIN ONENINE : In(ONENINE[i], hand_total)
    /\ \A i \in DOMAIN hand_total : In(hand_total[i], ONENINE)

\* the product of the per-suit parses, empty groups dropped
RECURSIVE NonEmptyGroups(_)
NonEmptyGroups(p) ==
    IF p = <<>> THEN <<>>
    ELSE (IF Len(p[1]) > 0 THEN <<p[1]>> ELSE <<>>) \o NonEmptyGroups(Tail(p))

win_parse(hand34, final_tile) ==
    LET hand_total == hand34 \o <<final_tile>>
        res == seven_pairs_parse(hand_total)
    IN
    IF is_all_single_one_nine(hand_total)
    THEN << [i \in DOMAIN ONENINE |-> all_copies(hand_total, ONENINE[i])] >>
    ELSE
    LET sorted == Sorted(hand_total)
        hand_man == SelectSeq(sorted, LAMBDA t : t < 9)
        hand_pin == SelectSeq(sorted, LAMBDA t : 9 <= t /\ t < 18)
        hand_suo == SelectSeq(sorted, LAMBDA t : 18 <= t /\ t < 27)
        hand_chr == SelectSeq(sorted, LAMBDA t : 27 <= t)
        man_parse == parse_nums(hand_man)
        pin_parse == parse_nums(hand_pin)
        suo_parse == parse_nums(hand_suo)
        chr_parse == parse_chrs(hand_chr)
    IN
    IF \/ (hand_man # <<>> /\ man_parse = <<>>)
       \/ (hand_pin # <<>> /\ pin_parse = <<>>)
       \/ (hand_suo # <<>> /\ suo_parse = <<>>)
       \/ (hand_chr # <<>> /\ chr_parse = <<>>)
    THEN res
    ELSE LET prod == Cross(Cross(Cross(man_parse, pin_parse), suo_parse), <<chr_parse[1]>>)
         IN  res \o [i \in DOMAIN prod |-> NonEmptyGroups(prod[i])]

(***************************************************************************)
(* class WinWaitCal: han_calculation                                       *)
(*                                                                         *)
(* The han and ykman dicts are keyed by a description that spells the      *)
(* value out ("...(1Han)"), so an entry is the pair [name, val] and a dict *)
(* is the list of its distinct entries in insertion order: assigning an    *)
(* entry that is already there changes nothing.                            *)
(***************************************************************************)
Entry(v, name) == [name |-> name, val |-> v]

\* the dict left by a run of assignments d[name] = v
DictOf(entries) == Dedup(entries)

\* sum([v for k, v in d.items()])
DictSum(d) == Sum([i \in DOMAIN d |-> d[i].val])

\* " ".join([k for k, v in d.items()])
DictDesc(d) == [i \in DOMAIN d |-> d[i].name]

\* [m for m in groups if len(m) == 2]: the pairs of a decomposition
PairsOf(groups) == SelectSeq(groups, LAMBDA m : Len(m) = 2)

\* one entry if the condition holds
When(cond, e) == IF cond THEN <<e>> ELSE <<>>

\* the entries of a list of entry lists, in order
RECURSIVE Concat(_)
Concat(ss) == IF ss = <<>> THEN <<>> ELSE ss[1] \o Concat(Tail(ss))

han_calculation(hand_partition, final_tile, melds, minkan, ankan, is_zimo, player_wind, round_wind, reach) ==
    LET all_melds == hand_partition \o melds \o minkan \o ankan
        all_melds_no_kan == hand_partition \o melds
        all_tiles == Flatten(all_melds)
        is_menqing == Len(melds \o minkan) = 0
        len_open == Len(melds \o minkan \o ankan)
        len_total == len_open + Len(hand_partition)
        pairs == PairsOf(hand_partition)
        IsChow3(m) == Len(m) = 3 /\ m[1] # m[2]
        IsPon3(m) == Len(m) = 3 /\ m[1] = m[2]
        \* check_flat_win and check_4ankans read [pairs][0]
        raises == \/ (is_menqing /\ Len(hand_partition) = 5 /\ pairs = <<>>)
                  \/ (len_total = 5 /\ pairs = <<>>)
        check_all_single_one_nine ==
            When(Len(hand_partition) = 13, Entry(1, "KokushiMusou(Maxi)"))
        check_seven_pairs ==
            When(Len(hand_partition) = 7, Entry(2, "Chiitoitsu(2Han)"))
        check_win_type ==
            When(reach, Entry(1, "Riichi(1Han)"))
            \o When(is_zimo /\ is_menqing, Entry(1, "MenzenTsumo(1Han)"))
        check_dori ==
            Concat([i \in DOMAIN all_melds |->
                LET meld == all_melds[i] IN
                IF Len(meld) > 2 /\ meld[1] = meld[2]
                THEN When(In(meld[1], THREES), Entry(1, "Yakuhai(1Han)"))
                     \o When(meld[1] = player_wind, Entry(1, "SelfWind(1Han)"))
                     \o When(meld[1] = round_wind, Entry(1, "RoundWind(1Han)"))
                ELSE <<>>])
        check_no19 ==
            When(\A i \in DOMAIN ONENINE : ~In(ONENINE[i], all_tiles),
                 Entry(1, "Tanyao(1Han)"))
        check_flat_win ==
            IF is_menqing /\ Len(hand_partition) = 5
            THEN LET chows == SelectSeq(hand_partition, IsChow3)
                     pair == pairs[1]
                 IN  When(/\ Len(chows) = 4
                          /\ ~In(pair[1], THREES \o <<player_wind, round_wind>>)
                          /\ \E i \in DOMAIN chows :
                                /\ In(final_tile, chows[i])
                                /\ \/ (chows[i][1] = final_tile /\ chows[i][1] % 9 # 6)
                                   \/ (chows[i][3] = final_tile /\ chows[i][3] % 9 # 2),
                          Entry(1, "Pinfu(1Han)"))
            ELSE <<>>
        check_1to9 ==
            When(/\ len_total = 5
                 /\ \E i \in {0, 9, 18} : \A s \in {0, 3, 6} :
                        In(<<s + i, s + i + 1, s + i + 2>>, all_melds_no_kan),
                 IF is_menqing THEN Entry(2, "Ittsu(2Han)") ELSE Entry(1, "Ittsu(1Han)"))
        check_all_pons ==
            When(/\ len_total = 5
                 /\ \A i \in DOMAIN all_melds_no_kan :
                        all_melds_no_kan[i][1] = all_melds_no_kan[i][2],
                 Entry(2, "Toitoi(2Han)"))
        metrics3 == [i \in DOMAIN THREES |->
                        LET t == Count(all_tiles, THREES[i]) IN IF t < 4 THEN t ELSE 3]
        check_threes_yk ==
            When(len_total = 5 /\ Count(metrics3, 3) = 3, Entry(1, "Daisangen(Maxi)"))
        check_threes ==
            When(len_total = 5 /\ Count(metrics3, 3) = 2 /\ Count(metrics3, 2) = 1,
                 Entry(2, "Shousangen(2Han)"))
        all_19pons ==
            len_total = Len(SelectSeq(all_melds,
                LAMBDA m : Len(m) > 1 /\ m[1] = m[2] /\ In(m[1], ONENINE)))
        pure_all_19 ==
            /\ len_total = 5
            /\ 5 = Len(SelectSeq(all_melds,
                    LAMBDA m : \E k \in DOMAIN m : In(m[k], TERMINALS)))
        check_all19_yk == When(all_19pons /\ pure_all_19, Entry(1, "Chinroutou(Maxi)"))
        check_all19 ==
            IF all_19pons /\ pure_all_19 THEN <<>>
            ELSE IF all_19pons THEN <<Entry(2, "Honroutou(2Han)")>>
            ELSE IF pure_all_19
            THEN (IF is_menqing THEN <<Entry(3, "Junchan(3Han)")>>
                  ELSE <<Entry(2, "Junchan(2Han)")>>)
            ELSE When(/\ len_total = 5 \/ len_total = 7
                      /\ Len(SelectSeq(all_melds,
                             LAMBDA m : \E k \in DOMAIN m : In(m[k], ONENINE))) = len_total,
                      IF is_menqing THEN Entry(2, "Chanta(2Han)")
                      ELSE Entry(1, "Chanta(1Han)"))
        check_3pons_same_color ==
            When(/\ len_total = 5
                 /\ \E i \in 0..8 : \A n \in {0, 9, 18} :
                        In(Rep(n + i, 3), all_melds) \/ In(Rep(n + i, 4), all_melds),
                 Entry(2, "SanshokuDoukou(2Han)"))
        chows_nk == SelectSeq(all_melds_no_kan, IsChow3)
        check_3chows_same_color ==
            When(/\ len_total = 5
                 /\ Len(chows_nk) > 2
                 /\ \E i \in 0..6 : \A t \in {0, 9, 18} :
                        In(<<i + t, i + t + 1, i + t + 2>>, chows_nk),
                 IF is_menqing THEN Entry(2, "SanshokuDoujun(2Han)")
                 ELSE Entry(1, "SanshokuDoujun(1Han)"))
        check_3kans ==
            When(len_total = 5 /\ Len(ankan \o minkan) = 3, Entry(2, "Sankantsu(2Han)"))
        was_erbeikou ==
            /\ is_menqing
            /\ Len(hand_partition) = 5
            /\ \A i \in DOMAIN all_tiles : Count(all_tiles, all_tiles[i]) = 2
        check_multiple_same_chow ==
            IF was_erbeikou THEN <<Entry(3, "Ryanpeikou(3Han)")>>
            ELSE When(/\ is_menqing
                      /\ Len(hand_partition \o ankan) # 0
                      /\ LET chows == SelectSeq(hand_partition,
                                          LAMBDA m : Len(m) > 1 /\ m[1] # m[2])
                         IN  \E i \in DOMAIN chows : Count(chows, chows[i]) >= 2,
                      Entry(1, "Iipeikou(1Han)"))
        OneColor(typ) == \A i \in DOMAIN all_tiles :
                            typ <= all_tiles[i] /\ all_tiles[i] < typ + 9
        OneColorOrChr(typ) == \A i \in DOMAIN all_tiles :
                            \/ (typ <= all_tiles[i] /\ all_tiles[i] < typ + 9)
                            \/ (27 <= all_tiles[i] /\ all_tiles[i] < 34)
        check_pure_color ==
            IF \E typ \in {0, 9, 18} : OneColor(typ)
            THEN (IF is_menqing THEN <<Entry(6, "Chinitsu(6Han)")>>
                  ELSE <<Entry(5, "Chinitsu(5Han)")>>)
            ELSE IF \E typ \in {0, 9, 18} : OneColorOrChr(typ)
            THEN (IF is_menqing THEN <<Entry(3, "Honitsu(3Han)")>>
                  ELSE <<Entry(2, "Honitsu(2Han)")>>)
            ELSE <<>>
        check_pure_green ==
            When(\A i \in DOMAIN all_tiles : In(all_tiles[i], GREENS),
                 Entry(1, "Ryuuiisou(Maxi)"))
        kezi4 == Len(ankan) + Len(SelectSeq(hand_partition, IsPon3))
        kezi3 == Len(ankan) + Len(SelectSeq(hand_partition,
                    LAMBDA m : IsPon3(m) /\ (is_zimo \/ final_tile # m[1])))
        check_4ankans_yk ==
            When(len_total = 5 /\ kezi4 = 4 /\ (is_zimo \/ final_tile = pairs[1][1]),
                 Entry(1, "Suuankou(Maxi)"))
        check_4ankans ==
            IF len_total # 5 THEN <<>>
            ELSE IF kezi4 = 4
            THEN When(~(is_zimo \/ final_tile = pairs[1][1]), Entry(2, "Sanankou(2Han)"))
            ELSE When(kezi3 = 3, Entry(2, "Sanankou(2Han)"))
        metrics4 == [i \in DOMAIN WINDS |->
                        LET t == Count(all_tiles, WINDS[i]) IN IF t < 4 THEN t ELSE 3]
        check_four_honors ==
            IF Count(metrics4, 3) = 4 THEN <<Entry(1, "Daisuushii(Maxi)")>>
            ELSE When(Count(metrics4, 3) = 3 /\ Count(metrics4, 2) = 1,
                      Entry(1, "Shousuushii(Maxi)"))
        check_all_characters ==
            When(\A i \in DOMAIN all_tiles : In(all_tiles[i], HONORS),
                 Entry(1, "Tsuuiisou(Maxi)"))
        check_9lotus ==
            When(/\ is_menqing
                 /\ \E i \in {0, 9, 18} :
                        /\ \A k \in DOMAIN all_tiles : i <= all_tiles[k] /\ all_tiles[k] < i + 9
                        /\ \A t \in i..(i + 8) : In(t, all_tiles)
                        /\ Count(all_tiles, i) > 2
                        /\ Count(all_tiles, i + 8) > 2,
                 Entry(1, "ChuurenPoutou(Maxi)"))
        han == DictOf(check_seven_pairs \o check_win_type \o check_dori \o check_no19
                      \o check_flat_win \o check_1to9 \o check_all_pons \o check_threes
                      \o check_all19 \o check_3pons_same_color \o check_3chows_same_color
                      \o check_3kans \o check_multiple_same_chow \o check_pure_color
                      \o check_4ankans)
        ykman == DictOf(check_all_single_one_nine \o check_threes_yk \o check_all19_yk
                        \o check_pure_green \o check_4ankans_yk \o check_four_honors
                        \o check_all_characters \o check_9lotus)
    IN  IF raises THEN [tag |-> "IndexError"]
        ELSE [tag |-> "ok",
              han |-> han,
              ykman |-> ykman,
              han_sum |-> DictSum(han),
              yk_sum |-> DictSum(ykman),
              han_desc |-> IF DictSum(ykman) = 0 THEN DictDesc(han) ELSE DictDesc(ykman)]

(***************************************************************************)
(* class WinWaitCal: fu_calculation and score_calculation_base             *)
(* The fu dict is keyed like the han dict, by a description that spells    *)
(* the value out. The formatted description strings are not modelled.      *)
(***************************************************************************)
\* the multiple of m under x instead of the one over it
RoundUp_down(x, m) == (x \div m) * m

\* ((x - 1) // m + 1) * m
RoundUp(x, m) == (((x - 1) \div m) + 1) * m

fu_calculation(hand_partition, final_tile, melds, minkan, ankan, is_zimo, player_wind, round_wind) ==
    LET pairs == PairsOf(hand_partition)
        pair == pairs[1]
        chws == SelectSeq(hand_partition \o melds, LAMBDA m : m[1] # m[2])
        chws_with_final == SelectSeq(chws, LAMBDA chow : In(final_tile, chow))
        flat_shape ==
            /\ Len(hand_partition) + Len(melds) = 5
            /\ Len(chws) = 4
            /\ ~In(pair[1], THREES \o <<player_wind, round_wind>>)
            /\ \E i \in DOMAIN chws_with_final :
                  LET chw == chws_with_final[i] IN
                  \/ (chw[1] = final_tile /\ chw[1] % 9 # 6)
                  \/ (chw[3] = final_tile /\ chw[3] % 9 # 2)
        Kezi(meld) ==
            IF Len(meld) = 3 /\ meld[1] = meld[2] /\ meld[2] = meld[3]
            THEN IF In(meld[1], ONENINE)
                 THEN (IF is_zimo \/ final_tile # meld[1]
                       THEN <<Entry(8, "YaochuuAnko(8Fu)")>>
                       ELSE <<Entry(4, "YaochuuMinko(4Fu)")>>)
                 ELSE (IF is_zimo \/ final_tile # meld[1]
                       THEN <<Entry(4, "ChunchanAnko(4Fu)")>>
                       ELSE <<Entry(2, "ChunchanMinko(2Fu)")>>)
            ELSE <<>>
        CalledKezi(meld) ==
            IF meld[1] = meld[2]
            THEN (IF In(meld[1], ONENINE) THEN <<Entry(4, "YaochuuMinko(4Fu)")>>
                  ELSE <<Entry(2, "ChunchanMinko(2Fu)")>>)
            ELSE <<>>
        check_kezi ==
            Concat([i \in DOMAIN hand_partition |-> Kezi(hand_partition[i])])
            \o Concat([i \in DOMAIN melds |-> CalledKezi(melds[i])])
        check_kans ==
            Concat([i \in DOMAIN minkan |->
                IF In(minkan[i][1], ONENINE) THEN <<Entry(16, "YaochuuMinkan(16Fu)")>>
                ELSE <<Entry(8, "ChunchanMinkan(8Fu)")>>])
            \o Concat([i \in DOMAIN ankan |->
                IF In(ankan[i][1], ONENINE) THEN <<Entry(32, "YaochuuAnkan(32Fu)")>>
                ELSE <<Entry(16, "ChunchanAnkan(16Fu)")>>])
        check_pair ==
            When(In(pair[1], THREES), Entry(2, "YakuhaiPair(2Fu)"))
            \o When(pair[1] = player_wind, Entry(2, "SelfWindPair(2Fu)"))
            \o When(pair[1] = round_wind, Entry(2, "RoundWindPair(2Fu)"))
        check_waiting_type ==
            IF pair[1] = final_tile /\ Len(chws_with_final) = 0
            THEN <<Entry(2, "Tanki(2Fu)")>>
            ELSE When(/\ Len(chws_with_final) > 0
                      /\ \A i \in DOMAIN chws_with_final :
                            LET chw == chws_with_final[i] IN
                            \/ chw[2] = final_tile
                            \/ (chw[1] = final_tile /\ chw[3] % 9 = 8)
                            \/ (chw[3] = final_tile /\ chw[1] % 9 = 0),
                      Entry(2, "PenchanKanchan(2Fu)"))
        check_win_type ==
            When(is_zimo, Entry(2, "Tsumo(2Fu)"))
            \o When(~is_zimo /\ Len(melds \o minkan) = 0, Entry(10, "MenzenRon(10Fu)"))
        fu == DictOf(check_kezi \o check_kans \o check_pair \o check_waiting_type
                     \o check_win_type)
        Flat(v, name) == [tag |-> "ok", fu |-> <<Entry(v, name)>>, fu_sum |-> v,
                          fu_round |-> v, fu_desc |-> <<name>>]
    IN  IF Len(hand_partition) = 7 THEN Flat(25, "Chiitoitsu(25Fu)")
        ELSE IF pairs = <<>> THEN [tag |-> "IndexError"]
        ELSE IF flat_shape /\ is_zimo /\ Len(melds) = 0
        THEN Flat(20, "MenzenTsumoPinfu(20Fu)")
        ELSE IF flat_shape /\ ~is_zimo /\ Len(melds) > 0
        THEN Flat(30, "OpenPinfuRon(30Fu)")
        ELSE [tag |-> "ok", fu |-> fu, fu_sum |-> DictSum(fu),
              fu_round |-> RoundUp(DictSum(fu), 10), fu_desc |-> DictDesc(fu)]

\* the ceiling test without its three-han arm
mangan_ceiling_four_han(han, fu) == fu >= 40 /\ han >= 4

\* under five han: the han and fu from which the score is the fixed 8000 / 12000
mangan_ceiling(han, fu) == (fu >= 40 /\ han >= 4) \/ (fu >= 70 /\ han >= 3)

score_calculation_base(han, fu, is_dealer, is_zimo) ==
    IF han = 0 THEN 0
    ELSE IF han < 5
    THEN IF mangan_ceiling(han, fu)
         THEN (IF is_dealer THEN 12000 ELSE 8000)
         ELSE LET base_score == fu * (2 ^ (han + 2)) IN
              IF is_zimo
              THEN IF is_dealer
                   THEN RoundUp(base_score * 2, 100) * 3
                   ELSE RoundUp(base_score * 2, 100) + 2 * RoundUp(base_score, 100)
              ELSE IF is_dealer THEN RoundUp(base_score * 6, 100)
                   ELSE RoundUp(base_score * 4, 100)
    ELSE IF han = 5 THEN (IF is_dealer THEN 12000 ELSE 8000)
    ELSE IF 6 <= han /\ han <= 7 THEN (IF is_dealer THEN 18000 ELSE 12000)
    ELSE IF 8 <= han /\ han <= 10 THEN (IF is_dealer THEN 24000 ELSE 16000)
    ELSE IF 11 <= han /\ han <= 12 THEN (IF is_dealer THEN 36000 ELSE 24000)
    ELSE (IF is_dealer THEN 48000 ELSE 32000)

(***************************************************************************)
(* class WinWaitCal: score_calculation and waiting_calculation             *)
(* A result is a record with a tag: "ok" for a returned dict, "None" for   *)
(* None, and the exception's name when the call raises.                    *)
(***************************************************************************)
None == [tag |-> "None"]

\* the running best of the loop of score_calculation before the first
\* decomposition: b_score, ..., b_par = 0, None, ..., None
NoBest == [tag |-> "ok", score |-> 0, han |-> <<>>, han_desc |-> <<>>,
           has_fu |-> FALSE, fu |-> <<>>, fu_desc |-> <<>>, partition |-> <<>>]

\* a decomposition of equal score replaces the running best too
Improves_on_ties(final_score, b_score) == final_score >= b_score

\* every scoring decomposition replaces the running best
Improves_always(final_score, b_score) == final_score > 0

\* final_score > b_score: a decomposition replaces the running best
Improves(final_score, b_score) == final_score > b_score

\* the test for a decomposition without yaku left out
NoYaku_unchecked(han_dict) == FALSE

\* han_sum == yk_sum == 0: the decomposition has no yaku and is skipped
NoYaku(han_dict) == han_dict.han_sum = 0 /\ han_dict.yk_sum = 0

\* one yakuman counted however many the decomposition has
maxi_score_single(yk_sum, reach_stick, benchan, is_dealer) ==
    (IF is_dealer THEN 48000 ELSE 32000) + 1000 * reach_stick + benchan * 300

\* the score of a decomposition with yakuman
maxi_score(yk_sum, reach_stick, benchan, is_dealer) ==
    LET base_maxi_score == IF is_dealer THEN 48000 ELSE 32000
    IN  base_maxi_score * yk_sum + 1000 * reach_stick + benchan * 300

\* the score of a decomposition without yakuman, the streak counters left out
normal_score_no_counters(han, fu, reach_stick, benchan, is_dealer, is_zimo) ==
    score_calculation_base(han, fu, is_dealer, is_zimo) + 1000 * reach_stick

\* the score of a decomposition without yakuman
normal_score(han, fu, reach_stick, benchan, is_dealer, is_zimo) ==
    LET base_point == score_calculation_base(han, fu, is_dealer, is_zimo)
    IN  base_point + 1000 * reach_stick + benchan * (IF base_point > 0 THEN 300 ELSE 0)

\* one pass of the loop body of score_calculation over decomposition p
score_step(best, p, final_tile, melds, minkan, ankan, is_zimo, player_wind, round_wind, reach, bonus_num, benchan, reach_stick, is_dealer) ==
    LET dora == When(bonus_num > 0, Entry(bonus_num, "Dora"))
        \* lines 1373-1389, with the fu_dict of line 1373
        Ordinary(han_dict, fu_dict) ==
            IF fu_dict.tag # "ok" THEN [tag |-> fu_dict.tag]
            ELSE IF Improves(normal_score(han_dict.han_sum + bonus_num, fu_dict.fu_round,
                                          reach_stick, benchan, is_dealer, is_zimo),
                             best.score)
            THEN [tag |-> "ok",
                  score |-> normal_score(han_dict.han_sum + bonus_num, fu_dict.fu_round,
                                         reach_stick, benchan, is_dealer, is_zimo),
                  han |-> DictOf(han_dict.han \o dora),
                  han_desc |-> han_dict.han_desc \o DictDesc(dora),
                  has_fu |-> TRUE, fu |-> fu_dict.fu, fu_desc |-> fu_dict.fu_desc,
                  partition |-> p]
            ELSE best
        \* lines 1358-1389, with the han_dict of line 1357
        Body(han_dict) ==
            IF han_dict.tag # "ok" THEN [tag |-> han_dict.tag]
            ELSE IF NoYaku(han_dict) THEN best
            ELSE IF han_dict.yk_sum > 0
            THEN IF Improves(maxi_score(han_dict.yk_sum, reach_stick, benchan, is_dealer),
                             best.score)
                 THEN [tag |-> "ok",
                       score |-> maxi_score(han_dict.yk_sum, reach_stick, benchan,
                                            is_dealer),
                       han |-> han_dict.ykman, han_desc |-> han_dict.han_desc,
                       has_fu |-> FALSE, fu |-> <<>>, fu_desc |-> <<>>, partition |-> p]
                 ELSE best
            ELSE Ordinary(han_dict,
                          fu_calculation(p, final_tile, melds, minkan, ankan, is_zimo,
                                         player_wind, round_wind))
    IN
    IF best.tag # "ok" THEN best
    ELSE Body(han_calculation(p, final_tile, melds, minkan, ankan, is_zimo,
                              player_wind, round_wind, reach))

RECURSIVE score_loop(_, _, _, _, _, _, _, _, _, _, _, _, _, _)
score_loop(best, ps, final_tile, melds, minkan, ankan, is_zimo, player_wind, round_wind, reach, bonus_num, benchan, reach_stick, is_dealer) ==
    IF ps = <<>> THEN best
    ELSE score_loop(score_step(best, ps[1], final_tile, melds, minkan, ankan, is_zimo,
                               player_wind, round_wind, reach, bonus_num, benchan,
                               reach_stick, is_dealer),
                    Tail(ps), final_tile, melds, minkan, ankan, is_zimo, player_wind,
                    round_wind, reach, bonus_num, benchan, reach_stick, is_dealer)

score_calculation(hand34, final_tile, melds, minkan, ankan, is_zimo, player_wind, round_wind, reach, bonus_num, bonus_tiles, benchan, reach_stick, is_dealer) ==
    LET bonus == bonus_num + (IF In(final_tile, bonus_tiles) THEN 1 ELSE 0)
        \* lines 1354-1402, with the win_partitions of line 1351
        Best(win_partitions) ==
            score_loop(NoBest, win_partitions, final_tile, melds, minkan, ankan,
                       is_zimo, player_wind, round_wind, reach, bonus, benchan,
                       reach_stick, is_dealer)
        \* lines 1391-1402, with the best decomposition the loop has found
        Return(best) ==
            IF best.tag # "ok" THEN best
            ELSE IF best.score = 0 THEN None
            ELSE best
        Scored(win_partitions) ==
            IF Len(win_partitions) = 0 THEN None ELSE Return(Best(win_partitions))
    IN  Scored(win_parse(hand34, final_tile))

\* possible_tiles of waiting_calculation. An item is a tile (list = FALSE) or,
\* where the source appends a whole range, a list of tiles (list = TRUE).
possible_tiles(hand34) ==
    LET lenman == Len(SelectSeq(hand34, LAMBDA t : t < 9))
        lenpin == Len(SelectSeq(hand34, LAMBDA t : 9 <= t /\ t < 18))
        lensuo == Len(SelectSeq(hand34, LAMBDA t : 18 <= t /\ t < 27))
        lenchr == Len(SelectSeq(hand34, LAMBDA t : 27 <= t))
        metrics == <<lenman % 3, lenpin % 3, lensuo % 3, lenchr % 3>>
        RangeList(lo, hi) == [k \in 1..(hi - lo) |-> lo + k - 1]
    IN
    IF In(1, metrics) /\ ~In(2, metrics) /\ Count(metrics, 1) = 1
    THEN LET tile_type == (CHOOSE k \in 1..4 : metrics[k] = 1) - 1
             r == IF tile_type < 3 THEN RangeList(tile_type * 9, (tile_type + 1) * 9)
                  ELSE RangeList(27, 34)
         IN  [k \in DOMAIN r |-> [list |-> FALSE, val |-> r[k]]]
    ELSE IF In(2, metrics) /\ ~In(1, metrics) /\ Count(metrics, 2) = 2
    THEN Concat([i \in 1..3 |->
                    When(metrics[i] = 2,
                         [list |-> TRUE, val |-> RangeList((i - 1) * 9, i * 9)])])
         \o When(metrics[4] = 2, [list |-> TRUE, val |-> RangeList(27, 34)])
    ELSE <<>>

\* the tiles waiting_calculation gives to score_calculation, in order, and
\* whether a tile that scores nothing is stored too (the first two branches
\* store what score_calculation returns, the last one only a result)
tiles_tried(hand34) ==
    LET distinct == Range(hand34)
        Tile(t) == [list |-> FALSE, val |-> t]
        tried ==
            IF Len(hand34) = 13 /\ Cardinality(distinct) = 7
            THEN LET pairs == {t \in distinct : Count(hand34, t) = 2}
                     single == {t \in distinct : Count(hand34, t) = 1}
                 IN  [keep_none |-> TRUE,
                      pts |-> IF Cardinality(pairs) = 6 /\ Cardinality(single) = 1
                              THEN <<Tile(CHOOSE t \in single : TRUE)>>
                              ELSE <<>>]
            ELSE IF Len(hand34) = 13 /\ Cardinality(distinct) >= 12
            THEN LET metrics_19 == [i \in DOMAIN ONENINE |-> Count(hand34, ONENINE[i])]
                 IN  [keep_none |-> TRUE,
                      pts |-> IF Count(metrics_19, 1) = 13
                              THEN [i \in DOMAIN ONENINE |-> Tile(ONENINE[i])]
                              ELSE IF Count(metrics_19, 1) = 11 /\ Count(metrics_19, 2) = 1
                              THEN <<Tile(CHOOSE t \in Range(ONENINE) : ~In(t, hand34))>>
                              ELSE <<>>]
            ELSE [keep_none |-> FALSE, pts |-> possible_tiles(hand34)]
    IN  tried

waiting_calculation(hand34, melds, minkan, ankan, is_zimo, player_wind, round_wind, reach, bonus_num, bonus_tiles, benchan, reach_stick, is_dealer) ==
    LET \* the exception of the first call that raises, or the dict after the
        \* loop; rs[k] is what score_calculation does with the k-th tile tried
        Waitings(pts, keep_none, rs) ==
            LET bad == {k \in DOMAIN pts : rs[k].tag \notin {"ok", "None"}}
                kept == {k \in DOMAIN pts : rs[k].tag = "ok" \/ keep_none}
            IN  IF bad # {}
                THEN [tag |-> rs[CHOOSE k \in bad : \A j \in bad : k <= j].tag]
                ELSE [tag |-> "ok",
                      waitings |-> [t \in {pts[k].val : k \in kept} |->
                                      rs[CHOOSE k \in kept : pts[k].val = t]]]
        \* set(hand_total) in win_parse raises on a list element
        Tried(pts, keep_none) ==
            Waitings(pts, keep_none,
                     [k \in DOMAIN pts |->
                         IF pts[k].list THEN [tag |-> "TypeError"]
                         ELSE score_calculation(hand34, pts[k].val, melds, minkan,
                                                ankan, is_zimo, player_wind, round_wind,
                                                reach, bonus_num, bonus_tiles, benchan,
                                                reach_stick, is_dealer)])
        Go(t) == Tried(t.pts, t.keep_none)
    IN  Go(tiles_tried(hand34))

(***************************************************************************)
(* The inputs the operations are applied to.                               *)
(***************************************************************************)
\* a hand holds at most four copies of a tile
Copies == 4

\* the number of tiles of a hand without calls
HandSize == 13

\* the tiles the hands are drawn from: three man tiles that form a run, one
\* pin, one suo and two winds
Deck == <<0, 1, 2, 9, 18, 27, 28>>

\* the number of tiles of the short hands win_parse is also applied to
SmallHand == 4

\* the sorted hand that holds cnt[i] copies of Deck[i]
RECURSIVE HandOf(_, _)
HandOf(cnt, i) ==
    IF i > Len(Deck) THEN <<>> ELSE Rep(Deck[i], cnt[i]) \o HandOf(cnt, i + 1)

Hands(n) ==
    {HandOf(cnt, 1) : cnt \in {c \in [DOMAIN Deck -> 0..Copies] :
                                 Sum([i \in DOMAIN Deck |-> c[i]]) = n}}

\* the thirteen terminal and honor tiles without one of them and with one other tile
OrphanHands ==
    {Sorted(Remove(ONENINE, t) \o <<u>>) : t \in Range(ONENINE), u \in Range(ONENINE)}

\* four triplets of terminal tiles and one more terminal tile u; v is the
\* terminal tile the hand does not hold
TerminalHands ==
    UNION {{Sorted(Concat([i \in DOMAIN TERMINALS |->
                              IF TERMINALS[i] = u THEN <<u>>
                              ELSE IF TERMINALS[i] = v THEN <<>>
                              ELSE Rep(TERMINALS[i], 3)])) :
               v \in Range(TERMINALS) \ {u}} :
           u \in Range(TERMINALS)}

\* the context of a hand without calls
NoCalls == [melds |-> <<>>, minkan |-> <<>>, ankan |-> <<>>, is_zimo |-> FALSE,
            player_wind |-> EAST, round_wind |-> EAST, reach |-> FALSE,
            bonus_num |-> 0, bonus_tiles |-> <<>>, benchan |-> 0, reach_stick |-> 0,
            is_dealer |-> FALSE]

\* the winning tiles tried: the tiles of the deck and the terminal and honor tiles
FinalTiles == Range(Deck) \cup Range(ONENINE)

\* the number of outstanding bet sticks and dealer-streak counters together,
\* at most
MaxSticks == 1

\* the number of bonus tiles counted before the winning tile, at most
MaxBonus == 1

\* the bonus tiles, bet sticks and streak counters of a context: bonus tiles
\* without sticks and counters, or sticks and counters without bonus tiles
Extras ==
    {<<b, 0, 0>> : b \in 0..MaxBonus}
    \cup {<<0, s, n>> : s \in 0..MaxSticks, n \in 0..MaxSticks}

\* the contexts of a hand without calls and without a riichi call; the bonus
\* tile indicated is the first tile of the deck
Contexts ==
    {[NoCalls EXCEPT !.is_zimo = z, !.is_dealer = d, !.bonus_num = e[1],
                     !.bonus_tiles = <<Deck[1]>>, !.reach_stick = e[2],
                     !.benchan = e[3]] :
        z \in BOOLEAN, d \in BOOLEAN,
        e \in {x \in Extras : x[2] + x[3] <= MaxSticks}}

\* the number of tiles of a list given to the Partition engine, at most
MaxTiles == 5

\* the tiles those lists are drawn from
PartDeck == <<0, 1, 2, 3, 9, 27>>

\* the lists of at most n tiles, in any order
TileLists(n) ==
    UNION {[1..k -> Range(PartDeck)] : k \in 0..n}

\* the tiles the hands given to the shanten functions are drawn from: three
\* man tiles that form a run, one pin and two winds
ShantenDeck == <<0, 1, 2, 9, 27, 28>>

\* the sorted hands of n tiles of a deck
HandsFrom(deck, n) ==
    {Concat([i \in DOMAIN deck |-> Rep(deck[i], c[i])]) :
        c \in {c \in [DOMAIN deck -> 0..Copies] : Sum([i \in DOMAIN deck |-> c[i]]) = n}}

\* the bonus character tiles of the player: the seat wind
BonusChrs == <<EAST>>

\* the calls made before the hand is evaluated: none, a run of man tiles, a
\* triplet of pin tiles, or both
CallLists == {<<>>, << <<3, 4, 5>> >>, << <<13, 13, 13>> >>, << <<3, 4, 5>>, <<13, 13, 13>> >>}

\* three called runs of one suit: the four tiles left in the hand are given
\* in any order
ThreeRuns == << <<3, 4, 5>>, <<4, 5, 6>>, <<5, 6, 7>> >>

\* the hand and the calls a shanten function is given
ShantenInputs ==
    {<<h, c>> : h \in HandsFrom(ShantenDeck, HandSize + 1), c \in {<<>>}}
    \cup UNION {{<<h, c>> : h \in HandsFrom(ShantenDeck, HandSize - 3 * Len(c))} :
                   c \in CallLists}
    \cup {<<h, ThreeRuns>> : h \in [1..(HandSize - 3 * Len(ThreeRuns)) -> Range(ShantenDeck)]}

\* the han given to score_calculation_base, at most
MaxHan == 14

\* the fu given to score_calculation_base, at most
MaxFu == 110

\* the fu fu_calculation returns: a multiple of ten, or the 25 of seven pairs
FuValues == {f \in 1..MaxFu : f % 10 = 0 \/ f = 25}

(***************************************************************************)
(* The lists of the caller.                                                *)
(*                                                                         *)
(* A reference is one of the lists the caller passed in, by name, or a     *)
(* list the callee built (by +, a slice, a comprehension, list() or        *)
(* deepcopy).  An operation that changes a list in place is a write when   *)
(* its reference names a list of the caller.  Each ..._writes operator is  *)
(* the writes of the function of that name, in order; beside a reference   *)
(* it takes the contents of the list on entry.                             *)
(***************************************************************************)
Arg(name) == [obj |-> name]

Local == [obj |-> "local"]

\* the write of an operation in place, if r is a list of the caller
InPlace(r, op, x) ==
    IF r.obj = "local" THEN <<>> ELSE <<[obj |-> r.obj, op |-> op, x |-> x]>>

\* copy.deepcopy(r): a list of the callee
deepcopy(r) == Local

\* the sum is the first list itself
list_concat_shared(r) == r

\* r + xs: a list of the callee
list_concat(r) == Local

\* r.remove(x)
list_remove(r, x) == InPlace(r, "remove", x)

\* r.sort()
list_sort(r) == InPlace(r, "sort", 0)

\* r.append(x)
list_append(r, x) == InPlace(r, "append", x)

\* r.remove(x) for each x of xs in turn, on the contents s
RECURSIVE RemoveAll(_, _)
RemoveAll(s, xs) == IF xs = <<>> THEN s ELSE RemoveAll(Remove(s, xs[1]), Tail(xs))

\* the lists of mem after the writes
RECURSIVE Written(_, _)
Written(mem, writes) ==
    IF writes = <<>> THEN mem
    ELSE LET w == writes[1]
             s == mem[w.obj]
             v == IF w.op = "remove" THEN (IF In(w.x, s) THEN Remove(s, w.x) ELSE s)
                  ELSE IF w.op = "sort" THEN Sorted(s)
                  ELSE Append(s, w.x)
         IN  Written([mem EXCEPT ![w.obj] = v], Tail(writes))

\* lines 330-396: the recursive calls take slices, or a deepcopy that three
\* or two tiles are removed from
RECURSIVE _partition_single_type_writes(_, _)
_partition_single_type_writes(tiles34, ts) ==
    IF Len(ts) < 3 THEN <<>>
    ELSE
    LET h == ts[1]
        rec_tiles == deepcopy(tiles34)
        Sliced(k) == _partition_single_type_writes(Local, From(ts, k))
        Taken(xs) ==
            Concat([i \in DOMAIN xs |-> list_remove(rec_tiles, xs[i])])
            \o _partition_single_type_writes(rec_tiles, RemoveAll(ts, xs))
    IN  (IF is_pon(ts) THEN Sliced(3) ELSE <<>>)
        \o (IF is_chow(ts) THEN Taken(<<h, h + 1, h + 2>>) ELSE <<>>)
        \o (IF is_two_headed(ts) THEN Taken(<<h, h + 1>>) ELSE <<>>)
        \o (IF is_dead(ts) THEN Taken(<<h, h + 2>>) ELSE <<>>)
        \o (IF is_pair(ts) THEN Sliced(2) ELSE <<>>)
        \o Sliced(1)

\* lines 409-419: the three suits are comprehensions over tiles34
partition_writes(tiles34, ts) ==
    _partition_single_type_writes(Local, SelectSeq(ts, LAMBDA t : 0 <= t /\ t < 9))
    \o _partition_single_type_writes(Local, SelectSeq(ts, LAMBDA t : 9 <= t /\ t < 18))
    \o _partition_single_type_writes(Local, SelectSeq(ts, LAMBDA t : 18 <= t /\ t < 27))

\* lines 632-641: meld_types is a list of the callee that the suits of the
\* called melds are appended to
_shantin_pure_color_writes(called_melds, ms) ==
    LET types == Local
        suits == Dedup(SelectSeq([i \in DOMAIN ms |-> ms[i][1] \div 9],
                                 LAMBDA tp : tp # 3))
    IN  Concat([i \in DOMAIN suits |-> list_append(types, suits[i])])

\* the six shanten functions and shantin_multiple_forms
ShantenForms ==
    {"normal", "no_triplets", "no_19", "no_sequences", "seven_pairs", "pure_color",
     "multiple_forms"}

\* lines 462-473, 506-523, 576-588: partition; lines 591-625: counts only;
\* lines 707-743: partition and _shantin_pure_color
shantin_writes(form, tiles34, ts, called_melds, ms) ==
    IF form \in {"no_sequences", "seven_pairs"} THEN <<>>
    ELSE IF form \in {"normal", "no_triplets", "no_19"} THEN partition_writes(tiles34, ts)
    ELSE partition_writes(tiles34, ts) \o _shantin_pure_color_writes(called_melds, ms)

\* lines 1213-1252: parse_nums takes slices, or a deepcopy that three tiles
\* are removed from
RECURSIVE parse_nums_writes(_, _)
parse_nums_writes(tiles, ts) ==
    IF Len(ts) <= 3 \/ Len(ts) % 3 = 1 THEN <<>>
    ELSE
    LET h == ts[1]
        remain_tiles == deepcopy(tiles)
        xs == <<h, h + 1, h + 2>>
    IN  (IF nums_pair(ts) THEN parse_nums_writes(Local, From(ts, 2)) ELSE <<>>)
        \o (IF nums_pon(ts) THEN parse_nums_writes(Local, From(ts, 3)) ELSE <<>>)
        \o (IF nums_chow(ts)
            THEN Concat([i \in DOMAIN xs |-> list_remove(remain_tiles, xs[i])])
                 \o parse_nums_writes(remain_tiles, RemoveAll(ts, xs))
            ELSE <<>>)

\* lines 1266-1283: hand_total is hand34 + [final_tile], sorted in place
\* unless the hand is thirteen orphans; the suits are comprehensions over it
win_parse_writes(hand34, ts, final_tile) ==
    LET hand_total == list_concat(hand34)
        sorted == Sorted(ts \o <<final_tile>>)
    IN  IF is_all_single_one_nine(ts \o <<final_tile>>) THEN <<>>
        ELSE list_sort(hand_total)
             \o parse_nums_writes(Local, SelectSeq(sorted, LAMBDA t : t < 9))
             \o parse_nums_writes(Local, SelectSeq(sorted, LAMBDA t : 9 <= t /\ t < 18))
             \o parse_nums_writes(Local, SelectSeq(sorted, LAMBDA t : 18 <= t /\ t < 27))

\* lines 985-990 and 1021-1025: all_melds and all_melds_no_kan are sums of
\* lists; chows is a list of the callee that the runs are appended to
han_calculation_writes(hand_partition, melds, ms, len_kan) ==
    LET all_melds_no_kan == hand_partition \o ms
        chows == Local
        runs == SelectSeq(all_melds_no_kan, LAMBDA meld : Len(meld) = 3 /\ meld[1] # meld[2])
    IN  IF Len(all_melds_no_kan) + len_kan = 5
        THEN Concat([i \in DOMAIN runs |-> list_append(chows, runs[i])])
        ELSE <<>>

\* lines 1351-1357: win_parse on the hand list itself, then han_calculation
\* for each decomposition (a call that raises ends the loop; fu_calculation
\* builds its lists by comprehension only)
score_calculation_writes(hand34, ts, final_tile, melds, ms, len_kan) ==
    LET win_partitions == win_parse(ts, final_tile)
    IN  win_parse_writes(hand34, ts, final_tile)
        \o Concat([i \in DOMAIN win_partitions |->
                      han_calculation_writes(win_partitions[i], melds, ms, len_kan)])

\* lines 1471-1510: score_calculation on the hand list itself for each tile
\* tried, up to the first that is a list: that one raises in win_parse after
\* hand_total is built
waiting_calculation_writes(hand34, ts, melds, ms, len_kan) ==
    LET pts == tiles_tried(ts).pts
        lists == {k \in DOMAIN pts : pts[k].list}
        calls == IF lists = {} THEN pts
                 ELSE SubSeq(pts, 1, (CHOOSE k \in lists : \A j \in lists : k <= j) - 1)
    IN  Concat([i \in DOMAIN calls |->
                   score_calculation_writes(hand34, ts, calls[i].val, melds, ms,
                                            len_kan)])

\* three runs, a triplet of the east wind and a single dragon, completed by
\* that dragon
WindTripletHand == <<0, 1, 2, 9, 10, 11, 18, 19, 20, 27, 27, 27, 33>>

\* six pairs of one suit and a single tile of it, completed by that tile
SixPairsHand == <<0, 0, 1, 1, 2, 2, 3, 3, 4, 4, 5, 5, 6>>

\* the two hands with their winning tiles
Scenarios == {<<WindTripletHand, 33>>, <<SixPairsHand, 6>>}

\* the contexts of a hand without calls: every setting of the self-draw,
\* riichi and dealer flags and of the two winds
FlagContexts ==
    {[NoCalls EXCEPT !.is_zimo = z, !.reach = r, !.is_dealer = d,
                     !.player_wind = pw, !.round_wind = rw] :
        z \in BOOLEAN, r \in BOOLEAN, d \in BOOLEAN,
        pw \in Range(WINDS), rw \in Range(WINDS)}

\* the list s read from its k-th element round to the one before it
Rotated(s, k) == SubSeq(s, k + 1, Len(s)) \o SubSeq(s, 1, k)

\* the lists a caller passes in: a hand with its winning tile, the called
\* melds, the open and closed quads, the bonus tiles and the bonus honor
\* tiles.  A concealed hand, hands beside a called run, beside a closed quad
\* and beside an open quad and a called triplet, and a short hand of one suit
FrameLists ==
    {[hand |-> WindTripletHand, final |-> 33, melds |-> <<>>, minkan |-> <<>>,
      ankan |-> <<>>, bonus_tiles |-> <<33, 0>>, bonus_chrs |-> <<EAST>>],
     [hand |-> <<0, 1, 2, 9, 10, 11, 27, 27, 27, 33>>, final |-> 33,
      melds |-> << <<5, 3, 4>> >>, minkan |-> <<>>, ankan |-> <<>>,
      bonus_tiles |-> <<4>>, bonus_chrs |-> <<EAST>>],
     [hand |-> <<0, 0, 1, 1, 2, 2, 18, 19, 20, 6>>, final |-> 6,
      melds |-> <<>>, minkan |-> <<>>, ankan |-> << <<31, 31, 31, 31>> >>,
      bonus_tiles |-> <<>>, bonus_chrs |-> <<>>],
     [hand |-> <<0, 1, 2, 9, 9, 9, 33>>, final |-> 33,
      melds |-> << <<13, 13, 13>> >>, minkan |-> << <<28, 28, 28, 28>> >>,
      ankan |-> <<>>, bonus_tiles |-> <<28>>, bonus_chrs |-> <<EAST, 31>>],
     [hand |-> <<0, 1, 1, 2, 3>>, final |-> 3, melds |-> <<>>, minkan |-> <<>>,
      ankan |-> <<>>, bonus_tiles |-> <<1>>, bonus_chrs |-> <<>>]}

\* the tiles of the hand are of one numbered suit
OneSuit(ts) == \A i \in DOMAIN ts : ts[i] < 27 /\ ts[i] \div 9 = ts[1] \div 9

(***************************************************************************)
(* The complete hands han_calculation and fu_calculation are applied to:   *)
(* four groups and a pair, each group held in the hand or called, and      *)
(* hands of seven pairs.                                                   *)
(***************************************************************************)
\* the runs and triplets the hands are built from: three runs of man tiles
\* that overlap, the triplets of two simple tiles and of two dragons
GroupMenu ==
    << <<0, 1, 2>>, <<1, 2, 3>>, <<2, 3, 4>>, <<5, 5, 5>>, <<6, 6, 6>>,
       <<31, 31, 31>>, <<32, 32, 32>> >>

\* the pairs: of a simple tile, of the wind of the player and the round, of a dragon
PairMenu == << <<13, 13>>, <<EAST, EAST>>, <<33, 33>> >>

\* the concealed tiles, sorted, and the calls of the hands of four groups of
\* the menu, in its order, with a pair.  Each group is held in the hand
\* ("hand"), called ("meld") or declared as an open or a concealed quad
\* ("minkan", "ankan"); only triplets are declared as quads, and no tile has
\* more than four copies
CompleteHands ==
    LET HeldAs ==
            {<<"hand", "hand", "hand", "hand">>, <<"meld", "hand", "hand", "hand">>,
             <<"hand", "hand", "hand", "meld">>, <<"meld", "hand", "hand", "meld">>,
             <<"hand", "hand", "meld", "meld">>, <<"hand", "hand", "hand", "minkan">>,
             <<"hand", "hand", "hand", "ankan">>, <<"hand", "hand", "ankan", "ankan">>,
             <<"hand", "hand", "meld", "ankan">>}
        FourGroups ==
            {<<GroupMenu[q[1]], GroupMenu[q[2]], GroupMenu[q[3]], GroupMenu[q[4]]>> :
                q \in {r \in [1..4 -> DOMAIN GroupMenu] :
                          r[1] <= r[2] /\ r[2] <= r[3] /\ r[3] <= r[4]}}
        GroupsHeld(gs, held, h) ==
            LET idx == SelectSeq(<<1, 2, 3, 4>>, LAMBDA i : held[i] = h)
            IN  [k \in DOMAIN idx |-> IF h \in {"minkan", "ankan"}
                                      THEN gs[idx[k]] \o <<gs[idx[k]][1]>>
                                      ELSE gs[idx[k]]]
        Held(gs, pair, held) ==
            [tiles |-> Sorted(Flatten(GroupsHeld(gs, held, "hand")) \o pair),
             melds |-> GroupsHeld(gs, held, "meld"),
             minkan |-> GroupsHeld(gs, held, "minkan"),
             ankan |-> GroupsHeld(gs, held, "ankan")]
        AllTiles(x) == x.tiles \o Flatten(x.melds) \o Flatten(x.minkan) \o Flatten(x.ankan)
    IN  {x \in {Held(gs, pair, held) :
                   gs \in FourGroups, pair \in Range(PairMenu),
                   held \in HeldAs} :
            /\ \A k \in DOMAIN x.minkan : x.minkan[k][1] = x.minkan[k][2]
            /\ \A k \in DOMAIN x.ankan : x.ankan[k][1] = x.ankan[k][2]
            /\ \A t \in Range(AllTiles(x)) : Count(AllTiles(x), t) <= Copies}

\* the hands of seven pairs of seven of eight tiles
SevenPairsHands ==
    LET PairDeck == <<0, 1, 2, 3, 4, 8, 13, EAST>>
    IN  {Sorted(Concat([i \in DOMAIN PairDeck |->
                           IF PairDeck[i] = t THEN <<>> ELSE Rep(PairDeck[i], 2)])) :
            t \in Range(PairDeck)}

VARIABLES hand34, final_tile, ctx, win_partitions, score_res, wait_res,
          part_single, part_all, shantin_res, han_res, fu_res, pc

vars == <<hand34, final_tile, ctx, win_partitions, score_res, wait_res,
          part_single, part_all, shantin_res, han_res, fu_res, pc>>

NoResults ==
    /\ win_partitions = <<>>
    /\ score_res = None
    /\ wait_res = None
    /\ part_single = <<>>
    /\ part_all = <<>>
    /\ shantin_res = None
    /\ han_res = <<>>
    /\ fu_res = <<>>
    /\ pc = "input"

(***************************************************************************)
(* The Partition engine applied to a tile list.                            *)
(***************************************************************************)
InitPartition ==
    /\ hand34 \in TileLists(MaxTiles)
    /\ final_tile = 0
    /\ ctx = NoCalls
    /\ NoResults

PartitionSingleType ==
    /\ pc = "input"
    /\ part_single' = _partition_single_type(hand34)
    /\ pc' = "single_type"
    /\ UNCHANGED <<han_res, fu_res, shantin_res, hand34, final_tile, ctx, win_partitions, score_res, wait_res, part_all>>

Partition ==
    /\ pc = "input"
    /\ part_all' = partition(hand34)
    /\ pc' = "partitioned"
    /\ UNCHANGED <<han_res, fu_res, shantin_res, hand34, final_tile, ctx, win_partitions, score_res, wait_res,
                   part_single>>

NextPartition == PartitionSingleType \/ Partition

SpecPartition == InitPartition /\ [][NextPartition]_vars

(***************************************************************************)
(* win_parse applied to a hand and a winning tile.                         *)
(***************************************************************************)
InitWinParse ==
    /\ hand34 \in Hands(HandSize) \cup OrphanHands \cup TerminalHands \cup Hands(SmallHand)
    /\ final_tile \in FinalTiles
    /\ Count(hand34, final_tile) < Copies
    /\ ctx = NoCalls
    /\ NoResults

WinParse ==
    /\ pc = "input"
    /\ win_partitions' = win_parse(hand34, final_tile)
    /\ pc' = "parsed"
    /\ UNCHANGED <<han_res, fu_res, shantin_res, hand34, final_tile, ctx, score_res, wait_res, part_single, part_all>>

SpecWinParse == InitWinParse /\ [][WinParse]_vars

(***************************************************************************)
(* score_calculation applied to a complete hand: one that its winning tile *)
(* gives a decomposition.                                                  *)
(***************************************************************************)
Score(h, t, c) ==
    score_calculation(h, t, c.melds, c.minkan, c.ankan, c.is_zimo, c.player_wind,
                      c.round_wind, c.reach, c.bonus_num, c.bonus_tiles, c.benchan,
                      c.reach_stick, c.is_dealer)

InitScore ==
    /\ \/ hand34 \in OrphanHands \cup TerminalHands /\ final_tile \in Range(ONENINE)
       \/ hand34 \in Hands(HandSize) /\ final_tile \in Range(Deck)
    /\ Count(hand34, final_tile) < Copies
    /\ win_parse(hand34, final_tile) # <<>>
    /\ ctx \in Contexts
    /\ NoResults

ScoreCalculation ==
    /\ pc = "input"
    /\ win_partitions' = win_parse(hand34, final_tile)
    /\ score_res' = Score(hand34, final_tile, ctx)
    /\ pc' = "scored"
    /\ UNCHANGED <<han_res, fu_res, shantin_res, hand34, final_tile, ctx, wait_res, part_single, part_all>>

SpecScore == InitScore /\ [][ScoreCalculation]_vars

(***************************************************************************)
(* waiting_calculation applied to a hand without calls.                    *)
(***************************************************************************)
Waiting(h, c) ==
    waiting_calculation(h, c.melds, c.minkan, c.ankan, c.is_zimo, c.player_wind,
                        c.round_wind, c.reach, c.bonus_num, c.bonus_tiles, c.benchan,
                        c.reach_stick, c.is_dealer)

InitWaiting ==
    /\ hand34 \in Hands(HandSize) \cup OrphanHands \cup TerminalHands
    /\ final_tile = 0
    /\ \E z \in BOOLEAN : ctx = [NoCalls EXCEPT !.is_zimo = z]
    /\ NoResults

WaitingCalculation ==
    /\ pc = "input"
    /\ wait_res' = Waiting(hand34, ctx)
    /\ pc' = "waited"
    /\ UNCHANGED <<han_res, fu_res, shantin_res, hand34, final_tile, ctx, win_partitions, score_res, part_single,
                   part_all>>

SpecWaiting == InitWaiting /\ [][WaitingCalculation]_vars

(***************************************************************************)
(* The shanten functions applied to a hand and its calls; a concealed      *)
(* triplet of a terminal or honor tile may then be called, and the shanten *)
(* computed again.  In this specification ctx holds the called melds and   *)
(* the bonus character tiles.                                              *)
(***************************************************************************)
InitShanten ==
    /\ \E x \in ShantenInputs :
           /\ hand34 = x[1]
           /\ ctx = [called_melds |-> x[2], bonus_chrs |-> BonusChrs]
    /\ final_tile = 0
    /\ NoResults

Shanten ==
    /\ pc = "input"
    /\ shantin_res' = shantin_multiple_forms(hand34, ctx.called_melds, ctx.bonus_chrs)
    /\ pc' = "shanten"
    /\ UNCHANGED <<han_res, fu_res, hand34, final_tile, ctx, win_partitions, score_res, wait_res,
                   part_single, part_all>>

CallTriplet ==
    /\ pc = "shanten"
    /\ \E t \in Range(ONENINE) :
           /\ Count(hand34, t) >= 3
           /\ hand34' = Remove(Remove(Remove(hand34, t), t), t)
           /\ ctx' = [ctx EXCEPT !.called_melds = Append(@, <<t, t, t>>)]
    /\ shantin_res' = shantin_multiple_forms(hand34', ctx'.called_melds, ctx'.bonus_chrs)
    /\ pc' = "called"
    /\ UNCHANGED <<han_res, fu_res, final_tile, win_partitions, score_res, wait_res, part_single, part_all>>

\* one tile of a hand of thirteen tiles without calls is replaced by another
\* tile, and the hand, sorted again, is evaluated
ReplaceTile ==
    /\ pc = "shanten"
    /\ Len(hand34) = HandSize
    /\ ctx.called_melds = <<>>
    /\ \E u \in Range(hand34), t \in Range(ShantenDeck) :
           /\ t # u
           /\ Count(hand34, t) < Copies
           /\ hand34' = Sorted(Remove(hand34, u) \o <<t>>)
    /\ shantin_res' = shantin_multiple_forms(hand34', ctx.called_melds, ctx.bonus_chrs)
    /\ pc' = "replaced"
    /\ UNCHANGED <<han_res, fu_res, final_tile, ctx, win_partitions, score_res, wait_res,
                   part_single, part_all>>

NextShanten == Shanten \/ CallTriplet \/ ReplaceTile

SpecShanten == InitShanten /\ [][NextShanten]_vars

(***************************************************************************)
(* score_calculation_base applied to a han and a fu.  In this              *)
(* specification ctx holds the four arguments.                             *)
(***************************************************************************)
InitBase ==
    /\ \E h \in 0..MaxHan, f \in FuValues, d \in BOOLEAN, z \in BOOLEAN :
           ctx = [han |-> h, fu |-> f, is_dealer |-> d, is_zimo |-> z]
    /\ hand34 = <<>>
    /\ final_tile = 0
    /\ NoResults

ScoreCalculationBase ==
    /\ pc = "input"
    /\ score_res' = [tag |-> "ok",
                     score |-> score_calculation_base(ctx.han, ctx.fu, ctx.is_dealer,
                                                      ctx.is_zimo)]
    /\ pc' = "base"
    /\ UNCHANGED <<han_res, fu_res, shantin_res, hand34, final_tile, ctx, win_partitions, wait_res,
                   part_single, part_all>>

SpecBase == InitBase /\ [][ScoreCalculationBase]_vars

(***************************************************************************)
(* The functions called on lists of the caller.  hand34 and the lists of   *)
(* ctx are the caller's, given in any rotation of the hand; every call     *)
(* leaves in them what the writes of the function leave.                   *)
(***************************************************************************)
\* mem for the lists of the state
Mem ==
    [hand34 |-> hand34, melds |-> ctx.melds, minkan |-> ctx.minkan,
     ankan |-> ctx.ankan, bonus_tiles |-> ctx.bonus_tiles,
     bonus_chrs |-> ctx.bonus_chrs]

\* the lists of the state become those of mem
Leaves(mem) ==
    /\ hand34' = mem.hand34
    /\ ctx' = [ctx EXCEPT !.melds = mem.melds, !.minkan = mem.minkan,
                          !.ankan = mem.ankan, !.bonus_tiles = mem.bonus_tiles,
                          !.bonus_chrs = mem.bonus_chrs]

InitFrame ==
    /\ \E x \in FrameLists, k \in 0..12, z \in BOOLEAN :
           /\ k < Len(x.hand)
           /\ hand34 = Rotated(x.hand, k)
           /\ final_tile = x.final
           /\ ctx = [melds |-> x.melds, minkan |-> x.minkan, ankan |-> x.ankan,
                     is_zimo |-> z, player_wind |-> EAST, round_wind |-> EAST,
                     reach |-> FALSE, bonus_num |-> 0, bonus_tiles |-> x.bonus_tiles,
                     benchan |-> 0, reach_stick |-> 0, is_dealer |-> FALSE,
                     bonus_chrs |-> x.bonus_chrs]
    /\ NoResults

FramePartitionSingleType ==
    /\ pc = "input"
    /\ OneSuit(hand34)
    /\ part_single' = _partition_single_type(hand34)
    /\ Leaves(Written(Mem, _partition_single_type_writes(Arg("hand34"), hand34)))
    /\ pc' = "single_type"
    /\ UNCHANGED <<han_res, fu_res, final_tile, win_partitions, score_res, wait_res, part_all, shantin_res>>

FramePartition ==
    /\ pc = "input"
    /\ part_all' = partition(hand34)
    /\ Leaves(Written(Mem, partition_writes(Arg("hand34"), hand34)))
    /\ pc' = "partition"
    /\ UNCHANGED <<han_res, fu_res, final_tile, win_partitions, score_res, wait_res, part_single,
                   shantin_res>>

FrameShanten ==
    /\ pc = "input"
    /\ \E form \in ShantenForms :
           /\ shantin_res' =
                  [form |-> form,
                   res |-> CASE form = "normal" -> shantin_normal(hand34, ctx.melds)
                             [] form = "no_triplets" ->
                                    shantin_no_triplets(hand34, ctx.melds, ctx.bonus_chrs)
                             [] form = "no_19" -> shantin_no_19(hand34, ctx.melds)
                             [] form = "no_sequences" ->
                                    shantin_no_sequences(hand34, ctx.melds)
                             [] form = "seven_pairs" ->
                                    shantin_seven_pairs(hand34, ctx.melds)
                             [] form = "pure_color" ->
                                    shantin_pure_color(hand34, ctx.melds)
                             [] form = "multiple_forms" ->
                                    shantin_multiple_forms(hand34, ctx.melds,
                                                           ctx.bonus_chrs)]
           /\ Leaves(Written(Mem, shantin_writes(form, Arg("hand34"), hand34, Arg("melds"),
                                               ctx.melds)))
    /\ pc' = "shanten"
    /\ UNCHANGED <<han_res, fu_res, final_tile, win_partitions, score_res, wait_res, part_single,
                   part_all>>

FrameWinParse ==
    /\ pc = "input"
    /\ win_partitions' = win_parse(hand34, final_tile)
    /\ Leaves(Written(Mem, win_parse_writes(Arg("hand34"), hand34, final_tile)))
    /\ pc' = "win_parse"
    /\ UNCHANGED <<han_res, fu_res, final_tile, score_res, wait_res, part_single, part_all, shantin_res>>

FrameScore ==
    /\ pc = "input"
    /\ score_res' = Score(hand34, final_tile, ctx)
    /\ Leaves(Written(Mem, score_calculation_writes(Arg("hand34"), hand34, final_tile,
                                                    Arg("melds"), ctx.melds,
                                                    Len(ctx.minkan) + Len(ctx.ankan))))
    /\ pc' = "scored"
    /\ UNCHANGED <<han_res, fu_res, final_tile, win_partitions, wait_res, part_single, part_all,
                   shantin_res>>

FrameWaiting ==
    /\ pc = "input"
    /\ wait_res' = Waiting(hand34, ctx)
    /\ Leaves(Written(Mem, waiting_calculation_writes(Arg("hand34"), hand34, Arg("melds"),
                                                      ctx.melds,
                                                      Len(ctx.minkan) + Len(ctx.ankan))))
    /\ pc' = "waited"
    /\ UNCHANGED <<han_res, fu_res, final_tile, win_partitions, score_res, part_single, part_all,
                   shantin_res>>

NextFrame ==
    \/ FramePartitionSingleType
    \/ FramePartition
    \/ FrameShanten
    \/ FrameWinParse
    \/ FrameScore
    \/ FrameWaiting

SpecFrame == InitFrame /\ [][NextFrame]_vars

(***************************************************************************)
(* The two hands of the scenarios, each evaluated in turn by               *)
(* shantin_seven_pairs, waiting_calculation and, with its winning tile,    *)
(* win_parse and score_calculation.                                        *)
(***************************************************************************)
InitScenario ==
    /\ \E x \in Scenarios : hand34 = x[1] /\ final_tile = x[2]
    /\ ctx \in FlagContexts
    /\ NoResults

ScenarioShanten ==
    /\ pc = "input"
    /\ shantin_res' = [seven_pairs |-> shantin_seven_pairs(hand34, ctx.melds)]
    /\ pc' = "shanten"
    /\ UNCHANGED <<han_res, fu_res, hand34, final_tile, ctx, win_partitions, score_res, wait_res,
                   part_single, part_all>>

ScenarioWaiting ==
    /\ pc = "shanten"
    /\ wait_res' = Waiting(hand34, ctx)
    /\ pc' = "waited"
    /\ UNCHANGED <<han_res, fu_res, shantin_res, hand34, final_tile, ctx, win_partitions, score_res,
                   part_single, part_all>>

ScenarioScore ==
    /\ pc = "waited"
    /\ win_partitions' = win_parse(hand34, final_tile)
    /\ score_res' = Score(hand34, final_tile, ctx)
    /\ pc' = "scored"
    /\ UNCHANGED <<han_res, fu_res, shantin_res, hand34, final_tile, ctx, wait_res, part_single, part_all>>

NextScenario == ScenarioShanten \/ ScenarioWaiting \/ ScenarioScore

SpecScenario == InitScenario /\ [][NextScenario]_vars

(***************************************************************************)
(* han_calculation and fu_calculation applied to every decomposition that  *)
(* win_parse finds for a complete hand with its calls.                     *)
(***************************************************************************)
InitHanFu ==
    /\ \/ \E x \in CompleteHands :
             /\ final_tile \in Range(x.tiles)
             /\ hand34 = Remove(x.tiles, final_tile)
             /\ \E z \in BOOLEAN :
                   ctx = [NoCalls EXCEPT !.melds = x.melds, !.minkan = x.minkan,
                                         !.ankan = x.ankan, !.is_zimo = z]
       \/ \E ts \in SevenPairsHands :
             /\ final_tile \in Range(ts)
             /\ hand34 = Remove(ts, final_tile)
             /\ \E z \in BOOLEAN : ctx = [NoCalls EXCEPT !.is_zimo = z]
    /\ NoResults

HanFuCalculation ==
    /\ pc = "input"
    /\ win_partitions' = win_parse(hand34, final_tile)
    /\ han_res' = [i \in DOMAIN win_partitions' |->
                      han_calculation(win_partitions'[i], final_tile, ctx.melds, ctx.minkan,
                                      ctx.ankan, ctx.is_zimo, ctx.player_wind,
                                      ctx.round_wind, ctx.reach)]
    /\ fu_res' = [i \in DOMAIN win_partitions' |->
                     fu_calculation(win_partitions'[i], final_tile, ctx.melds, ctx.minkan,
                                    ctx.ankan, ctx.is_zimo, ctx.player_wind, ctx.round_wind)]
    /\ pc' = "valued"
    /\ UNCHANGED <<hand34, final_tile, ctx, score_res, wait_res, part_single, part_all, shantin_res>>

SpecHanFu == InitHanFu /\ [][HanFuCalculation]_vars

\* the elements of a set of tiles in ascending order
RECURSIVE Ascending(_)
Ascending(S) ==
    IF S = {} THEN <<>>
    ELSE LET m == CHOOSE x \in S : \A y \in S : x <= y
         IN  <<m>> \o Ascending(S \ {m})

(***************************************************************************)
(* What the properties are stated with: multisets, the shapes of groups,   *)
(* and every way of splitting a tile list into groups of given shapes,     *)
(* found by choosing how many times each candidate group is used.          *)
(***************************************************************************)
\* the multiset of the elements of a list
BagOf(s) == [x \in Range(s) |-> Count(s, x)]

IsSingleG(g) == Len(g) = 1

IsPairG(g) == Len(g) = 2 /\ g[1] = g[2]

IsPartialG(g) == Len(g) = 2 /\ (g[2] = g[1] + 1 \/ g[2] = g[1] + 2)

IsTripletG(g) == Len(g) = 3 /\ g[1] = g[2] /\ g[2] = g[3]

IsRunG(g) ==
    /\ Len(g) = 3
    /\ g[2] = g[1] + 1
    /\ g[3] = g[1] + 2
    /\ g[3] < 27
    /\ g[1] \div 9 = g[3] \div 9

\* how many copies of each tile 0..36 a list holds
Holding(ts) == [t \in 0..36 |-> Count(ts, t)]

\* the sequences m with m[i] uses of gs[i] (from gs[i] on) that use up exactly
\* the tiles of rem. The groups of gs come in ascending order of their lowest
\* tile, so a tile below the lowest tile of gs[i] that is left over stays so.
RECURSIVE SplitsFrom(_, _, _)
SplitsFrom(gs, i, rem) ==
    IF i > Len(gs)
    THEN IF \A t \in DOMAIN rem : rem[t] = 0 THEN {<<>>} ELSE {}
    ELSE IF i > 1 /\ gs[i - 1][1] < gs[i][1] /\ rem[gs[i - 1][1]] # 0 THEN {}
    ELSE LET g == gs[i]
             fits == {m \in 0..Len(gs) + 14 :
                         \A k \in DOMAIN g : m * Count(g, g[k]) <= rem[g[k]]}
         IN  UNION {{<<m>> \o r :
                        r \in SplitsFrom(gs, i + 1,
                                 [t \in DOMAIN rem |-> rem[t] - m * Count(g, t)])} :
                    m \in fits}

\* how many times a decomposition uses each group of gs
VecOf(p, gs) == [i \in DOMAIN gs |-> Count(p, gs[i])]

\* the groups the shanten search may form on the tiles of a list of one suit
PartGroups(ts) ==
    LET d == Ascending(Range(ts))
    IN  Concat([i \in DOMAIN d |->
            LET a == d[i] IN
            << <<a>>, <<a, a>>, <<a, a + 1>>, <<a, a + 2>>, <<a, a + 1, a + 2>>,
               <<a, a, a>> >>])

IsSortedOneSuit(ts) ==
    /\ \A i \in 1..(Len(ts) - 1) : ts[i] <= ts[i + 1]
    /\ \A i \in DOMAIN ts : ts[i] < 27 /\ ts[i] \div 9 = ts[1] \div 9

(***************************************************************************)
(* Partition engine                                                        *)
(***************************************************************************)
\* C9: every decomposition returned by _partition_single_type and by partition
\* holds exactly the tiles of the input list, and the decompositions of one
\* call all have the same number of groups.
KeepsTiles(ps, ts) ==
    \A i \in DOMAIN ps :
        /\ BagOf(Flatten(ps[i])) = BagOf(ts)
        /\ Len(ps[i]) = Len(ps[1])

C9_PartitionKeepsTiles ==
    /\ pc = "single_type" => part_single # <<>> /\ KeepsTiles(part_single, hand34)
    /\ pc = "partitioned" => part_all # <<>> /\ KeepsTiles(part_all, hand34)

C9_Witness ==
    /\ pc = "partitioned"
    /\ Len(part_all) >= 4
    /\ \E i \in DOMAIN hand34 : hand34[i] >= 27
    /\ \E i \in DOMAIN hand34 : hand34[i] < 9

\* C10: for a sorted list of one suit, _partition_single_type returns exactly
\* the splits into singles, pairs, two-tile partials, runs and triplets that
\* have the fewest groups: each returned one is such a split, none has more
\* groups than another split has, and every fewest-groups split is returned.
C10_FewestGroups ==
    (pc = "single_type" /\ IsSortedOneSuit(hand34)) =>
        LET gs == PartGroups(hand34)
            all == SplitsFrom(gs, 1, Holding(hand34))
        IN  /\ \A i \in DOMAIN part_single :
                  /\ \A k \in DOMAIN part_single[i] : In(part_single[i][k], gs)
                  /\ VecOf(part_single[i], gs) \in all
                  /\ \A v \in all : Len(part_single[i]) <= Sum(v)
            /\ \A v \in all :
                  (\A w \in all : Sum(v) <= Sum(w)) =>
                      \E i \in DOMAIN part_single : VecOf(part_single[i], gs) = v

C10_Witness ==
    /\ pc = "single_type"
    /\ IsSortedOneSuit(hand34)
    /\ Len(hand34) >= 4
    /\ is_chow(hand34)
    /\ \E i \in DOMAIN part_single : part_single[i][1] = <<hand34[1], hand34[1] + 2>>
    /\ \E i \in DOMAIN part_single : part_single[i][1] = <<hand34[1]>>
(***************************************************************************)
(* win_parse                                                               *)
(***************************************************************************)
\* the runs, triplets and pairs that can be formed on the tiles of a list
WinGroups(ts) ==
    LET d == Ascending(Range(ts))
    IN  Concat([i \in DOMAIN d |->
            LET a == d[i] IN
            << <<a, a>>, <<a, a, a>> >>
            \o When(IsRunG(<<a, a + 1, a + 2>>), <<a, a + 1, a + 2>>)])

\* the splits of a list into runs and triplets with exactly one pair, each
\* as the number of times it uses each group of WinGroups
StandardSplits(ts) ==
    LET gs == WinGroups(ts)
    IN  {v \in SplitsFrom(gs, 1, Holding(ts)) :
            Sum([i \in DOMAIN gs |-> IF IsPairG(gs[i]) THEN v[i] ELSE 0]) = 1}

IsStandard(p) ==
    /\ Len(p) = 5
    /\ \A k \in DOMAIN p : IsPairG(p[k]) \/ IsTripletG(p[k]) \/ IsRunG(p[k])
    /\ Cardinality({k \in DOMAIN p : IsPairG(p[k])}) = 1

IsSevenPairs(p) ==
    /\ Len(p) = 7
    /\ \A k \in DOMAIN p : IsPairG(p[k])
    /\ \A j, k \in DOMAIN p : j # k => p[j] # p[k]

IsThirteenOrphans(p) ==
    /\ Len(Flatten(p)) = 14
    /\ Range(Flatten(p)) = Range(ONENINE)
    /\ \A k \in DOMAIN p : p[k] # <<>> /\ \A j \in DOMAIN p[k] : p[k][j] = p[k][1]

\* the 14 tiles are seven tile values with two copies each
AreSevenPairs(ts) ==
    Len(ts) = 14 /\ \A i \in DOMAIN ts : Count(ts, ts[i]) = 2

\* the 14 tiles are the thirteen terminal and honor tiles and one of them again
AreThirteenOrphans(ts) ==
    Len(ts) = 14 /\ Range(ts) = Range(ONENINE)

\* C1: for a 14-tile input, every decomposition win_parse returns is four
\* runs or triplets and exactly one pair, or seven distinct pairs, or the
\* thirteen-orphans shape, and the list is empty when the tiles admit none
\* of the three shapes.
C1_ExactShapes ==
    (pc = "parsed" /\ Len(hand34) = HandSize) =>
        LET ts == hand34 \o <<final_tile>>
        IN  /\ \A i \in DOMAIN win_partitions :
                  \/ IsStandard(win_partitions[i])
                  \/ IsSevenPairs(win_partitions[i])
                  \/ IsThirteenOrphans(win_partitions[i])
            /\ (StandardSplits(ts) = {} /\ ~AreSevenPairs(ts) /\ ~AreThirteenOrphans(ts))
                  => win_partitions = <<>>

\* C2: for a 14-tile input that is not the thirteen-orphans shape, every
\* split into four runs or triplets and one pair is in the list win_parse
\* returns exactly once, up to the order of the groups, and the seven-pairs
\* decomposition is in the list exactly when the tiles are seven tile values
\* with two copies each.
C2_EachSplitOnce ==
    (pc = "parsed" /\ Len(hand34) = HandSize
        /\ ~AreThirteenOrphans(hand34 \o <<final_tile>>)) =>
        LET ts == hand34 \o <<final_tile>>
            gs == WinGroups(ts)
        IN  /\ \A v \in StandardSplits(ts) :
                  Cardinality({i \in DOMAIN win_partitions :
                                  /\ BagOf(Flatten(win_partitions[i])) = BagOf(ts)
                                  /\ VecOf(win_partitions[i], gs) = v}) = 1
            /\ (\E i \in DOMAIN win_partitions : IsSevenPairs(win_partitions[i]))
                  <=> AreSevenPairs(ts)

\* C3: every decomposition win_parse returns holds, over its groups, exactly
\* the tiles of hand34 and final_tile: the same multiset.
C3_SameTiles ==
    pc = "parsed" =>
        \A i \in DOMAIN win_partitions :
            BagOf(Flatten(win_partitions[i])) = BagOf(hand34 \o <<final_tile>>)

C3_Witness ==
    /\ pc = "parsed"
    /\ Len(win_partitions) >= 2
    /\ \E i \in DOMAIN hand34 : hand34[i] >= 27
    /\ \A i \in DOMAIN win_partitions : IsStandard(win_partitions[i])
    /\ \E i \in DOMAIN win_partitions : \E k \in 1..5 : IsRunG(win_partitions[i][k])
    /\ \E i \in DOMAIN win_partitions : \A k \in 1..5 : ~IsRunG(win_partitions[i][k])
(***************************************************************************)
(* score_calculation                                                       *)
(***************************************************************************)
\* the han of decomposition p under the context of the state
HanOf(p) ==
    han_calculation(p, final_tile, ctx.melds, ctx.minkan, ctx.ankan, ctx.is_zimo,
                    ctx.player_wind, ctx.round_wind, ctx.reach)

\* the fu of decomposition p under the context of the state
FuOf(p) ==
    fu_calculation(p, final_tile, ctx.melds, ctx.minkan, ctx.ankan, ctx.is_zimo,
                   ctx.player_wind, ctx.round_wind)

\* the bonus tiles counted: those of the context and the winning tile if it is one
BonusCounted ==
    ctx.bonus_num + (IF In(final_tile, ctx.bonus_tiles) THEN 1 ELSE 0)

\* what the loop of score_calculation finds for decomposition p: whether it
\* has a yaku or a yakuman and, if so, its final score and its han and fu
\* mappings
FoundFor(p) ==
    LET hd == HanOf(p)
        fd == FuOf(p)
        dora == When(BonusCounted > 0, Entry(BonusCounted, "Dora"))
    IN  IF hd.yk_sum > 0
        THEN [has_yaku |-> TRUE, has_fu |-> FALSE, fu |-> <<>>, han |-> hd.ykman,
              score |-> maxi_score(hd.yk_sum, ctx.reach_stick, ctx.benchan,
                                   ctx.is_dealer)]
        ELSE IF hd.han_sum > 0
        THEN [has_yaku |-> TRUE, has_fu |-> TRUE, fu |-> fd.fu,
              han |-> DictOf(hd.han \o dora),
              score |-> normal_score(hd.han_sum + BonusCounted, fd.fu_round,
                                     ctx.reach_stick, ctx.benchan, ctx.is_dealer,
                                     ctx.is_zimo)]
        ELSE [has_yaku |-> FALSE, has_fu |-> FALSE, fu |-> <<>>, han |-> <<>>,
              score |-> 0]

\* what the loop finds for each decomposition of the state
Found == [i \in DOMAIN win_partitions |-> FoundFor(win_partitions[i])]

NoneHasYaku ==
    \A i \in DOMAIN win_partitions :
        HanOf(win_partitions[i]).han_sum = 0 /\ HanOf(win_partitions[i]).yk_sum = 0

\* C5: score_calculation returns None when no decomposition has a yaku or a
\* yakuman, however many bonus tiles are counted.
C5_NoYakuNoScore ==
    (pc = "scored" /\ NoneHasYaku) => score_res = None

C5_Witness ==
    /\ pc = "scored"
    /\ NoneHasYaku
    /\ \E i \in DOMAIN win_partitions : IsStandard(win_partitions[i])
    /\ ctx.bonus_num > 0
    /\ score_res = None

\* the names of the yakuman
YakumanNames ==
    {"KokushiMusou(Maxi)", "Daisangen(Maxi)", "Chinroutou(Maxi)", "Ryuuiisou(Maxi)",
     "Suuankou(Maxi)", "Daisuushii(Maxi)", "Shousuushii(Maxi)", "Tsuuiisou(Maxi)",
     "ChuurenPoutou(Maxi)"}

\* C6: when the decomposition score_calculation chooses has a yakuman, the
\* score is 48000 for the dealer and 32000 otherwise, times the number of
\* yakuman, plus 1000 for each bet stick and 300 for each streak counter; the
\* han mapping returned holds the yakuman only, and no fu is returned.
C6_YakumanScore ==
    (pc = "scored" /\ score_res.tag = "ok" /\ Len(HanOf(score_res.partition).ykman) > 0) =>
        LET yakuman == {i \in DOMAIN score_res.han :
                           score_res.han[i].name \in YakumanNames}
        IN  /\ score_res.score =
                  (IF ctx.is_dealer THEN 48000 ELSE 32000) * Cardinality(yakuman)
                  + 1000 * ctx.reach_stick + 300 * ctx.benchan
            /\ yakuman = DOMAIN score_res.han
            /\ yakuman # {}
            /\ ~score_res.has_fu

C6_Witness ==
    /\ pc = "scored"
    /\ score_res.tag = "ok"
    /\ LET hd == HanOf(score_res.partition)
       IN  Len(hd.ykman) = 2 /\ hd.han_sum > 0
    /\ ctx.is_dealer
    /\ ctx.reach_stick > 0
    /\ ~score_res.has_fu
(***************************************************************************)
(* waiting_calculation                                                     *)
(***************************************************************************)
\* the tiles 0..33 that score_calculation returns a result for, with the hand
\* and the context of the state
ScoringTiles == {t \in 0..33 : Score(hand34, t, ctx).tag = "ok"}

\* C7: for a 13-tile hand without calls, the keys of the mapping
\* waiting_calculation returns are exactly the tiles 0..33 that
\* score_calculation returns a result for in the same context, and each key
\* maps to that result. (Stated for the calls that return a mapping.)
C7_AllWaitsFound ==
    (pc = "waited" /\ wait_res.tag = "ok") =>
        /\ DOMAIN wait_res.waitings = ScoringTiles
        /\ \A t \in DOMAIN wait_res.waitings :
              wait_res.waitings[t] = Score(hand34, t, ctx)

\* C8: waiting_calculation and score_calculation finish without raising: they
\* return a mapping, a result or None.
C8_NeverRaises ==
    /\ pc = "waited" => wait_res.tag = "ok"
    /\ pc = "scored" => score_res.tag \in {"ok", "None"}

(***************************************************************************)
(* Properties of the shanten functions.                                    *)
(***************************************************************************)
\* a called meld of three different tiles
IsCalledRun(m) == Len(m) = 3 /\ m[1] # m[2]

\* the numbered suits of the called melds
CalledSuits(calls) == {calls[i][1] \div 9 : i \in DOMAIN calls} \ {3}

\* the calls from which a form cannot be reached any more
Unreachable(form, calls) ==
    CASE form = "normal" -> FALSE
      [] form \in {"no_triplets", "seven_pairs"} -> calls # <<>>
      [] form = "no_sequences" -> \E i \in DOMAIN calls : IsCalledRun(calls[i])
      [] form = "no_19" ->
             \E i \in DOMAIN calls : \E j \in DOMAIN calls[i] :
                 calls[i][j] \in Range(ONENINE)
      [] form = "pure_color" -> Cardinality(CalledSuits(calls)) > 1

\* C11: every shanten function returns 10 or an integer from -1 to 8, and
\* returns 10 exactly when its form cannot be reached from the calls
C11_ShantenRange ==
    pc \in {"shanten", "called"} =>
        \A form \in DOMAIN shantin_res :
            /\ shantin_res[form] = 10 \/ shantin_res[form] \in -1..8
            /\ shantin_res[form] = 10 <=> Unreachable(form, ctx.called_melds)

\* C12: the shanten values depend only on the multiset of the hand tiles: the
\* hand given in any order has the shanten values of the sorted hand
C12_OrderIndependent ==
    pc = "shanten" =>
        shantin_res = shantin_multiple_forms(Sorted(hand34), ctx.called_melds,
                                             ctx.bonus_chrs)

\* C13: calling a concealed triplet of a terminal or honor tile never lowers
\* the no-terminals shanten
C13_CallNeverLowers ==
    [][(pc = "shanten" /\ pc' = "called") => shantin_res'.no_19 >= shantin_res.no_19]_vars

\* the tiles can be split into four runs or triplets and one pair
CanSplit(ts) == StandardSplits(Sorted(ts)) # {}

\* C20: without calls the standard shanten of a sorted 13-tile hand is 0
\* exactly when some tile value completes it to four runs or triplets and a
\* pair, and that of a sorted 14-tile hand is -1 exactly when it is complete
C20_NormalTenpai ==
    (pc = "shanten" /\ ctx.called_melds = <<>>) =>
        /\ Len(hand34) = HandSize =>
               (shantin_res.normal = 0 <=> \E t \in 0..33 : CanSplit(hand34 \o <<t>>))
        /\ Len(hand34) = HandSize + 1 =>
               (shantin_res.normal = -1 <=> CanSplit(hand34))

(***************************************************************************)
(* Properties of score_calculation_base.                                   *)
(***************************************************************************)
\* x rounded up to the next multiple of 100
Ceil100(x) == CHOOSE n \in {100 * k : k \in 0..((x \div 100) + 1)} : n >= x /\ n - x < 100

\* fu times two to the power han + 2
BasePoints(han, fu) == fu * 2 ^ (han + 2)

\* the han and fu the fixed tiers start from
AtCeiling(han, fu) == han >= 5 \/ (han = 4 /\ fu >= 40) \/ (han = 3 /\ fu >= 70)

\* the fixed tiers
Tier(han, is_dealer) ==
    CASE han <= 5 -> IF is_dealer THEN 12000 ELSE 8000
      [] han \in 6..7 -> IF is_dealer THEN 18000 ELSE 12000
      [] han \in 8..10 -> IF is_dealer THEN 24000 ELSE 16000
      [] han \in 11..12 -> IF is_dealer THEN 36000 ELSE 24000
      [] han >= 13 -> IF is_dealer THEN 48000 ELSE 32000

\* C14: under the mangan ceiling the score is the base fu * 2^(han+2) times
\* four or six rounded up to 100 on a claimed win, three times the doubled
\* base rounded up on a dealer self-draw, and the doubled base rounded up plus
\* twice the base rounded up on a non-dealer self-draw; 3 han 30 fu claimed
\* by a non-dealer is 3900 and no han is 0
C14_BelowCeiling ==
    pc = "base" =>
        LET base == BasePoints(ctx.han, ctx.fu) IN
        /\ ctx.han = 0 => score_res.score = 0
        /\ (ctx.han \in 1..4 /\ ~AtCeiling(ctx.han, ctx.fu)) =>
               score_res.score =
                   IF ~ctx.is_zimo
                   THEN Ceil100(base * (IF ctx.is_dealer THEN 6 ELSE 4))
                   ELSE IF ctx.is_dealer THEN 3 * Ceil100(base * 2)
                   ELSE Ceil100(base * 2) + 2 * Ceil100(base)
        /\ (ctx.han = 3 /\ ctx.fu = 30 /\ ~ctx.is_dealer /\ ~ctx.is_zimo) =>
               score_res.score = 3900

C14_Witness ==
    /\ pc = "base"
    /\ ctx.han = 3 /\ ctx.fu = 30 /\ ~ctx.is_dealer /\ ~ctx.is_zimo
    /\ score_res.score = 3900

\* C15: from the mangan ceiling on the score is a fixed tier that depends
\* neither on fu nor on the win method; 5 han claimed by the dealer is 12000
\* for every fu, and under 5 han with 20 to 110 fu the score never exceeds
\* the 5-han tier
C15_FixedTiers ==
    pc = "base" =>
        /\ AtCeiling(ctx.han, ctx.fu) => score_res.score = Tier(ctx.han, ctx.is_dealer)
        /\ (ctx.han = 5 /\ ctx.is_dealer /\ ~ctx.is_zimo) => score_res.score = 12000
        /\ (ctx.han \in 1..4 /\ ctx.fu \in 20..110) =>
               score_res.score <= Tier(5, ctx.is_dealer)

C15_Witness ==
    /\ pc = "base"
    /\ ctx.han = 3 /\ ctx.fu = 70 /\ ctx.is_zimo
    /\ score_res.score = Tier(5, ctx.is_dealer)

(***************************************************************************)
(* The two scenarios                                                       *)
(***************************************************************************)
\* the names of the entries of a han or fu mapping
YakuNames(d) == {d[i].name : i \in DOMAIN d}

\* the wind-triplet hand, self-drawn with east as seat wind and as round wind,
\* after win_parse and score_calculation
WindTripletCase ==
    /\ pc = "scored"
    /\ hand34 = WindTripletHand /\ final_tile = 33
    /\ ctx.is_zimo /\ ctx.player_wind = EAST /\ ctx.round_wind = EAST

\* the yaku the wind-triplet hand is to have and its nonzero score
WindTripletYaku ==
    /\ Len(win_partitions) = 1
    /\ LET han_dict == HanOf(win_partitions[1])
       IN  /\ han_dict.tag = "ok"
           /\ {"SelfWind(1Han)", "RoundWind(1Han)", "MenzenTsumo(1Han)"}
                  \subseteq YakuNames(han_dict.han)
    /\ score_res.tag = "ok" /\ score_res.score > 0

\* C16, as stated: for the wind-triplet hand win_parse returns exactly the
\* one decomposition [[0,1,2],[9,10,11],[18,19,20],[27,27,27],[33,33]], its
\* han includes the seat-wind, round-wind and closed self-draw yaku, and the
\* score is nonzero
C16_WindTripletList ==
    WindTripletCase =>
        /\ win_partitions = << << <<0, 1, 2>>, <<9, 10, 11>>, <<18, 19, 20>>,
                                  <<27, 27, 27>>, <<33, 33>> >> >>
        /\ WindTripletYaku

\* C16, amended: for the wind-triplet hand win_parse returns exactly one
\* decomposition, made of the five groups [0,1,2], [9,10,11], [18,19,20],
\* [27,27,27] and [33,33] in some order; its han includes the seat-wind,
\* round-wind and closed self-draw yaku, and the score is nonzero
C16_WindTripletGroups ==
    WindTripletCase =>
        /\ Len(win_partitions) = 1
        /\ BagOf(win_partitions[1])
               = BagOf(<< <<0, 1, 2>>, <<9, 10, 11>>, <<18, 19, 20>>,
                          <<27, 27, 27>>, <<33, 33>> >>)
        /\ WindTripletYaku

\* the wind-triplet hand has been parsed and scored
C16_Witness ==
    /\ WindTripletCase
    /\ Len(win_partitions) = 1
    /\ score_res.tag = "ok" /\ score_res.score > 0

\* the six-pairs hand after shantin_seven_pairs and waiting_calculation
SixPairsCase == pc = "waited" /\ hand34 = SixPairsHand

\* the result for tile 6 is the seven-pairs one: the seven-pairs yaku and
\* the flat 25 fu
SevenPairsResult(r) ==
    /\ r.tag = "ok"
    /\ "Chiitoitsu(2Han)" \in YakuNames(r.han)
    /\ r.has_fu /\ r.fu = <<Entry(25, "Chiitoitsu(25Fu)")>>

\* C17, as stated: for the six-pairs hand shantin_seven_pairs returns 0 and,
\* for every setting of the flags, waiting_calculation returns a mapping that
\* contains tile 6 with a result whose han contains the seven-pairs yaku and
\* whose fu is the flat 25
C17_SevenPairsAlways ==
    SixPairsCase =>
        /\ shantin_res.seven_pairs = 0
        /\ wait_res.tag = "ok"
        /\ 6 \in DOMAIN wait_res.waitings
        /\ SevenPairsResult(wait_res.waitings[6])

\* C17, amended: for the six-pairs hand shantin_seven_pairs returns 0 and,
\* for every setting of the flags, waiting_calculation returns a mapping that
\* contains tile 6 with a nonzero score; without riichi and without self-draw
\* the result is the seven-pairs one (seven-pairs yaku, flat 25 fu); with
\* riichi or self-draw it is the higher-scoring decomposition into a pair
\* and two doubled runs, without the seven-pairs yaku
C17_SevenPairsUnlessOutscored ==
    SixPairsCase =>
        /\ shantin_res.seven_pairs = 0
        /\ wait_res.tag = "ok"
        /\ 6 \in DOMAIN wait_res.waitings
        /\ LET r == wait_res.waitings[6]
           IN  /\ r.tag = "ok" /\ r.score > 0
               /\ IF ~ctx.reach /\ ~ctx.is_zimo
                  THEN SevenPairsResult(r)
                  ELSE /\ r.partition = << <<0, 0>>, <<1, 2, 3>>, <<1, 2, 3>>,
                                           <<4, 5, 6>>, <<4, 5, 6>> >>
                       /\ "Chiitoitsu(2Han)" \notin YakuNames(r.han)
                       /\ "Ryanpeikou(3Han)" \in YakuNames(r.han)
                       /\ ~(r.has_fu /\ r.fu = <<Entry(25, "Chiitoitsu(25Fu)")>>)

\* the six-pairs hand has been evaluated with riichi declared
C17_Witness ==
    /\ SixPairsCase /\ ctx.reach
    /\ wait_res.tag = "ok" /\ 6 \in DOMAIN wait_res.waitings


(***************************************************************************)
(* Thirteen orphans in waiting_calculation                                 *)
(***************************************************************************)
\* a hand of thirteen terminal and honor tiles, waited on
OrphanCase ==
    /\ pc = "waited"
    /\ Len(hand34) = HandSize
    /\ \A i \in DOMAIN hand34 : In(hand34[i], ONENINE)

\* a thirteen-orphans yakuman result
IsOrphansResult(r) ==
    /\ r.tag = "ok"
    /\ "KokushiMusou(Maxi)" \in YakuNames(r.han)
    /\ ~r.has_fu
    /\ r.score > 0

\* C18: for a hand of terminal and honor tiles holding twelve of the thirteen
\* values, one of them twice, waiting_calculation returns exactly one key,
\* the missing value, mapped to a thirteen-orphans yakuman result; for the
\* hand holding each of the thirteen values once, all thirteen are keys
C18_OrphansWait ==
    OrphanCase =>
        /\ Cardinality(Range(hand34)) = 12 =>
               /\ wait_res.tag = "ok"
               /\ DOMAIN wait_res.waitings = Range(ONENINE) \ Range(hand34)
               /\ Cardinality(DOMAIN wait_res.waitings) = 1
               /\ \A t \in DOMAIN wait_res.waitings : IsOrphansResult(wait_res.waitings[t])
        /\ Cardinality(Range(hand34)) = 13 =>
               /\ wait_res.tag = "ok"
               /\ DOMAIN wait_res.waitings = Range(ONENINE)

\* a hand missing one terminal or honor value has been waited on, and its
\* one key is that value
C18_Witness ==
    /\ OrphanCase
    /\ Cardinality(Range(hand34)) = 12
    /\ wait_res.tag = "ok"
    /\ \E t \in DOMAIN wait_res.waitings : ~In(t, hand34) /\ In(t, ONENINE)


(***************************************************************************)
(* The lists of the caller                                                 *)
(***************************************************************************)
\* C19: partition, the shanten functions, win_parse, han_calculation,
\* fu_calculation, score_calculation and waiting_calculation leave every
\* list the caller passed in (hand tiles, called melds, open and closed
\* quads, bonus tiles) with the same elements in the same order
C19_CallerListsKept == [][hand34' = hand34 /\ ctx' = ctx]_vars

\* win_parse has sorted its copy of a hand that was given unsorted, with a
\* called run that was given unsorted too
C19_Witness ==
    /\ pc = "win_parse"
    /\ hand34 # Sorted(hand34)
    /\ win_partitions # <<>>
    /\ \E i \in DOMAIN ctx.melds : ctx.melds[i] # Sorted(ctx.melds[i])

(***************************************************************************)
(* The fu and han of the decompositions of a complete hand with its calls. *)
(***************************************************************************)
\* the decompositions of the state that are not seven pairs
StandardOnes == {i \in DOMAIN win_partitions : Len(win_partitions[i]) # 7}

\* C21: for every winning decomposition that is not seven pairs the fu
\* starts from a base of 20, so the rounded fu used for scoring is never
\* below 20.
C21_BaseTwenty ==
    pc = "valued" => \A i \in StandardOnes : fu_res[i].fu_round >= 20

\* the fu of one triplet or quad by itself: doubled for a terminal or honor
\* tile, for a concealed group and twice more for a quad
GroupFu(tile, concealed, quad) ==
    2 * (IF In(tile, ONENINE) THEN 2 ELSE 1) * (IF concealed THEN 2 ELSE 1)
      * (IF quad THEN 4 ELSE 1)

\* the fu of the triplets and quads of decomposition i, each counted by itself
GroupFuOf(i) ==
    LET p == win_partitions[i]
        triplet(g) == Len(g) = 3 /\ g[1] = g[2]
    IN  Sum([k \in DOMAIN p |->
                IF triplet(p[k])
                THEN GroupFu(p[k][1], ctx.is_zimo \/ final_tile # p[k][1], FALSE) ELSE 0])
        + Sum([k \in DOMAIN ctx.melds |->
                IF triplet(ctx.melds[k]) THEN GroupFu(ctx.melds[k][1], FALSE, FALSE) ELSE 0])
        + Sum([k \in DOMAIN ctx.minkan |-> GroupFu(ctx.minkan[k][1], FALSE, TRUE)])
        + Sum([k \in DOMAIN ctx.ankan |-> GroupFu(ctx.ankan[k][1], TRUE, TRUE)])

\* the names of the fu entries of triplets and quads
GroupFuNames ==
    {"YaochuuAnko(8Fu)", "YaochuuMinko(4Fu)", "ChunchanAnko(4Fu)", "ChunchanMinko(2Fu)",
     "YaochuuMinkan(16Fu)", "ChunchanMinkan(8Fu)", "YaochuuAnkan(32Fu)", "ChunchanAnkan(16Fu)"}

\* the fu that the mapping d holds for triplets and quads
GroupFuIn(d) ==
    Sum([k \in DOMAIN d |-> IF d[k].name \in GroupFuNames THEN d[k].val ELSE 0])

\* C22: every triplet and every quad, concealed or called, adds its own fu
\* to the subtotal: the fu mapping holds the sum of their values, and the
\* subtotal is at least that sum.
C22_EachGroupCounted ==
    pc = "valued" =>
        \A i \in StandardOnes :
            /\ GroupFuIn(fu_res[i].fu) = GroupFuOf(i)
            /\ fu_res[i].fu_sum >= GroupFuOf(i)

\* the triplets and quads of dragon tiles of decomposition i and of the calls
DragonGroups(i) ==
    SelectSeq(win_partitions[i] \o ctx.melds \o ctx.minkan \o ctx.ankan,
              LAMBDA g : Len(g) > 2 /\ g[1] = g[2] /\ In(g[1], THREES))

\* the han that the mapping d holds under the name of the dragon triplet
DragonHanIn(d) ==
    Sum([k \in DOMAIN d |-> IF d[k].name = "Yakuhai(1Han)" THEN d[k].val ELSE 0])

\* C23: each triplet or quad of a dragon tile adds one han: the han mapping
\* holds as many han for dragon triplets as the decomposition and the calls
\* have such groups, and han_sum is at least that number.
C23_EachDragonTriplet ==
    pc = "valued" =>
        \A i \in StandardOnes :
            /\ DragonHanIn(han_res[i].han) = Len(DragonGroups(i))
            /\ han_res[i].han_sum >= Len(DragonGroups(i))

\* decomposition i with the calls is four runs and a pair that is neither a
\* dragon nor the wind of the player or the round
FourRunsPlainPair(i) ==
    LET groups == win_partitions[i] \o ctx.melds
    IN  /\ Len(groups) = 5
        /\ ctx.minkan = <<>> /\ ctx.ankan = <<>>
        /\ \A k \in DOMAIN groups :
              \/ Len(groups[k]) = 3 /\ groups[k][1] # groups[k][2]
              \/ /\ Len(groups[k]) = 2
                 /\ k <= Len(win_partitions[i])
                 /\ ~In(groups[k][1], THREES)
                 /\ groups[k][1] \notin {ctx.player_wind, ctx.round_wind}

\* the winning tile is an end of a run of decomposition i or of the calls
\* whose other end is open: the run is not 7-8-9 won on 7 nor 1-2-3 won on 3
TwoSidedWait(i) ==
    \E g \in Range(win_partitions[i] \o ctx.melds) :
        /\ Len(g) = 3 /\ g[1] # g[2]
        /\ \/ g[1] = final_tile /\ g[3] % 9 # 8
           \/ g[3] = final_tile /\ g[1] % 9 # 0

\* x is the smallest multiple of m that is greater than or equal to y
SmallestMultipleFrom(x, m, y) == x % m = 0 /\ x >= y /\ x - m < y

\* C24: the rounded fu is 25 for a seven-pairs decomposition, 20 for a
\* closed self-drawn hand of four runs with a valueless pair won on a
\* two-sided wait, 30 for an open hand of that shape won by claim, and in
\* every other case the smallest multiple of 10 that is greater than or
\* equal to the fu subtotal.
C24_RoundedFu ==
    pc = "valued" =>
        \A i \in DOMAIN win_partitions :
            LET flat == FourRunsPlainPair(i) /\ TwoSidedWait(i)
                r == fu_res[i].fu_round
            IN  IF Len(win_partitions[i]) = 7 THEN r = 25
                ELSE IF flat /\ ctx.melds = <<>> /\ ctx.is_zimo THEN r = 20
                ELSE IF flat /\ ctx.melds # <<>> /\ ~ctx.is_zimo THEN r = 30
                ELSE SmallestMultipleFrom(r, 10, fu_res[i].fu_sum)

\* a hand with a call won by claim that has a decomposition of four runs with
\* the flat 30 and one with triplets whose subtotal is rounded up
C24_Witness ==
    /\ pc = "valued"
    /\ ctx.melds # <<>> /\ ~ctx.is_zimo
    /\ \E i, j \in DOMAIN win_partitions :
          /\ FourRunsPlainPair(i) /\ TwoSidedWait(i) /\ fu_res[i].fu_round = 30
          /\ ~FourRunsPlainPair(j)
          /\ fu_res[j].fu_sum % 10 # 0
          /\ fu_res[j].fu_round > fu_res[j].fu_sum

\* a seven-pairs decomposition with the flat 25
C24_SevenPairsReached ==
    /\ pc = "valued"
    /\ \E i \in DOMAIN win_partitions : Len(win_partitions[i]) = 7 /\ fu_res[i].fu_round = 25

\* a closed self-drawn decomposition of four runs with the flat 20
C24_ClosedFlatReached ==
    /\ pc = "valued"
    /\ ctx.melds = <<>> /\ ctx.is_zimo
    /\ \E i \in DOMAIN win_partitions :
          FourRunsPlainPair(i) /\ TwoSidedWait(i) /\ fu_res[i].fu_round = 20

\* the runs of decomposition i
RunsOf(i) == SelectSeq(win_partitions[i], LAMBDA g : Len(g) = 3 /\ g[1] # g[2])

\* decomposition i is four runs and a pair, and the runs are two pairs of
\* identical runs: each run occurs twice, or one run four times
TwoDoubleRuns(i) ==
    /\ Len(win_partitions[i]) = 5
    /\ Len(RunsOf(i)) = 4
    /\ \A k \in 1..4 : Count(RunsOf(i), RunsOf(i)[k]) \in {2, 4}

\* some run of decomposition i occurs at least twice
HasDoubleRun(i) == \E k \in DOMAIN RunsOf(i) : Count(RunsOf(i), RunsOf(i)[k]) >= 2

\* C27: a closed decomposition of four runs and a pair whose runs are two
\* pairs of identical runs, overlapping in tile values or not, or four times
\* the same run, gets the two-double-runs yaku and not the one-double-run
\* yaku; every other closed decomposition with a duplicated run gets only the
\* one-double-run yaku.
C27_TwoDoubleRuns ==
    (pc = "valued" /\ ctx.melds = <<>> /\ ctx.minkan = <<>>) =>
        \A i \in StandardOnes :
            LET names == YakuNames(han_res[i].han)
            IN  IF ctx.ankan = <<>> /\ TwoDoubleRuns(i)
                THEN "Ryanpeikou(3Han)" \in names /\ "Iipeikou(1Han)" \notin names
                ELSE IF HasDoubleRun(i)
                THEN "Iipeikou(1Han)" \in names /\ "Ryanpeikou(3Han)" \notin names
                ELSE TRUE

(***************************************************************************)
(* The bet sticks and streak counters in the score.                        *)
(***************************************************************************)
\* the base points of decomposition p: those of its yakuman, or those of its
\* han with the bonus tiles and its rounded fu; 0 without yaku
BasePointsOf(p) ==
    LET hd == HanOf(p)
    IN  IF hd.yk_sum > 0 THEN (IF ctx.is_dealer THEN 48000 ELSE 32000) * hd.yk_sum
        ELSE IF hd.han_sum > 0
        THEN score_calculation_base(hd.han_sum + BonusCounted, FuOf(p).fu_round,
                                    ctx.is_dealer, ctx.is_zimo)
        ELSE 0

C25_YakumanReached ==
    /\ pc = "scored"
    /\ ctx.reach_stick > 0
    /\ score_res.tag = "ok"
    /\ ~score_res.has_fu

\* a hand without scoring decomposition, with a bet stick outstanding
C25_NoResultReached ==
    /\ pc = "scored"
    /\ ctx.reach_stick > 0
    /\ score_res = None

(***************************************************************************)
(* The shanten counts of the hands of thirteen tiles without calls.        *)
(***************************************************************************)
\* a hand of thirteen tiles without calls has been evaluated
ThirteenNoCalls ==
    pc = "shanten" /\ Len(hand34) = HandSize /\ ctx.called_melds = <<>>

\* the tiles are seven distinct tile values with two copies each
SevenDistinctPairs(ts) == Len(ts) = 14 /\ \A x \in Range(ts) : Count(ts, x) = 2

\* C26: for a hand of thirteen tiles without calls shantin_seven_pairs
\* returns 0 exactly when some tile t makes the hand seven distinct tile
\* values with two copies each.
C26_SevenPairsTenpai ==
    ThirteenNoCalls =>
        (shantin_res.seven_pairs = 0
            <=> \E t \in 0..33 : SevenDistinctPairs(hand34 \o <<t>>))

\* C28: replacing one tile of a sorted hand of thirteen tiles without calls
\* by another tile changes the no-terminals shanten by at most 1 and the
\* single-suit shanten by at most 1.
C28_OneTileOneStep ==
    [][ReplaceTile =>
          /\ Abs(shantin_res'.no_19 - shantin_res.no_19) <= 1
          /\ Abs(shantin_res'.pure_color - shantin_res.pure_color) <= 1]_vars

\* C29: for a sorted hand of thirteen tiles without calls the no-triplets,
\* no-terminals, no-runs and single-suit shanten are each greater than or
\* equal to the standard shanten.
C29_RestrictedNotBelow ==
    ThirteenNoCalls =>
        /\ shantin_res.no_triplets >= shantin_res.normal
        /\ shantin_res.no_19 >= shantin_res.normal
        /\ shantin_res.no_sequences >= shantin_res.normal
        /\ shantin_res.pure_color >= shantin_res.normal

\* a hand whose single-suit shanten equals the standard one, whose no-runs
\* shanten is greater and whose partitions differ in their standard count
C29_Witness ==
    /\ ThirteenNoCalls
    /\ shantin_res.pure_color = shantin_res.normal
    /\ shantin_res.no_sequences > shantin_res.normal
    /\ Cardinality({shantin_n(p, 0) : p \in Range(partition(hand34))}) > 1

(***************************************************************************)
(* The waiting tiles and the copies the hand holds of them.                *)
(***************************************************************************)
\* C30: waiting_calculation never lists a tile of which the hand holds four
\* copies: no key of the returned mapping would be a fifth copy of a tile.
C30_NoFifthCopy ==
    (pc = "waited" /\ wait_res.tag = "ok") =>
        \A t \in DOMAIN wait_res.waitings : Count(hand34, t) < Copies

====
